---- MODULE Spec2Model ----
(***************************************************************************)
(* Failover dispatcher of rpc-gateway and the health state it reads.       *)
(*                                                                         *)
(* The repository holds several drafts of the dispatcher.  Two families    *)
(* are modelled, one specification each:                                   *)
(*   SpecMain      package main: httputil.ReverseProxy per target, with    *)
(*                 ModifyResponse / ErrorHandler re-entering ServeHTTP     *)
(*                 (src/http_failover_proxy.go, src/healthcheck_manager.go)*)
(*   SpecInternal  package internal/proxy: a loop over the targets         *)
(*                 (src/internal/proxy/proxy.go, first and second draft)   *)
(* One client request is followed from entry to its end while the health   *)
(* of the targets changes underneath it.                                   *)
(***************************************************************************)
EXTENDS Integers, Sequences, FiniteSets, TLC

\* ---------------------------------------------------------------- bounds
NumTargets == 2          \* len(config.Targets)
MaxRetries == 1          \* largest AllowedNumberOfRetriesPerTarget tried
MaxReroutes == 2         \* largest AllowedNumberOfReroutes tried
WindowSize == 2          \* HealthChecks.RollingWindowSize
MaxHealthChanges == 1    \* health transitions followed while one request is handled
MaxOutstanding == 2      \* probe goroutines of one kind followed at a time, per target
MaxTimers == 2           \* taint removal goroutines followed at a time, per target
MaxStreak == 7           \* taints in a row that are counted
MaxCycles == 3           \* probe cycles of one target that are followed
MaxRoundTrips == 4       \* round trips of one request that are followed
MaxObservations == 4     \* observations of a window between two resets
MaxItems == 3            \* items added to a WeightedRoundRobin
MaxWeight == 2           \* largest weight of an item

Targets == 0 .. (NumTargets - 1)

\* ------------------------------------------------------- program constants
StatusOK == 200
StatusMultipleChoices == 300
StatusBadRequest == 400
StatusTooManyRequests == 429
StatusInternalServerError == 500
StatusBadGateway == 502
StatusServiceUnavailable == 503

\* internal/proxy/healthchecker.go, in seconds
initialTaintWaitTime == 30
maxTaintWaitTime == 600
resetTaintWaitTimeAfterDuration == 300

\* What an upstream may answer: a status, the values of one response header
\* and a JSON-RPC body that carries either a result or an error member.
Statuses == {StatusOK, StatusBadRequest, StatusTooManyRequests, StatusInternalServerError}
HeaderValues == {<<>>, <<"a">>, <<"a", "b">>}
Bodies == {<<"result">>, <<"rpc_error">>}
UpstreamResponses == [status : Statuses, header : HeaderValues, body : Bodies]

\* A ResponseWriter nothing was written to, and the writes of net/http: the
\* first WriteHeader decides the status, a Write without one means 200, and
\* the body is what the Writes add up to.
NoResponse == [status |-> 0, header |-> <<>>, body |-> <<>>]

WriteHeader(w, statusCode) == IF w.status = 0 THEN [w EXCEPT !.status = statusCode] ELSE w

Write(w, b) == [WriteHeader(w, StatusOK) EXCEPT !.body = @ \o b]

HttpError(w, text, code) == Write(WriteHeader(w, code), <<text>>)

ServiceNotAvailable == HttpError(NoResponse, "Service not available", StatusServiceUnavailable)

VARIABLES
    draft,          \* which dispatcher handles the request
    cfg,            \* ProxyConfig: retries, reroutes
    isHealthy,      \* RPCHealthchecker.isHealthy, per target
    isTainted,      \* RPCHealthchecker.isTainted, per target
    window,         \* RollingWindow.window, per target
    offset,         \* RollingWindow.offset, per target
    pc,             \* where the request is
    peer,           \* target of the attempt in flight
    ctx,            \* values carried in the request context
    err,            \* error handed to ErrorHandler
    upstream,       \* response received from the upstream
    cancelled,      \* the client cancelled its request
    response,       \* what was written to the client
    errorsHandled,  \* requestErrorsHandled counters, per type
    client,         \* the request as the client sent it: body and Content-Encoding
    req,            \* *http.Request handed from attempt to attempt
    compression,    \* TargetConfig.Connection.HTTP.Compression, per target
    hc,             \* the rest of each target's RPCHealthchecker: probes, taint timer
    hist,           \* history of the request, for the properties only
    wrr,            \* WeightedRoundRobin.items
    gauges,         \* the status gauges of the HealthCheckManager, per target
    rt              \* one call of RetryRoundTrip.RoundTrip

vars == <<draft, cfg, isHealthy, isTainted, window, offset, pc, peer, ctx, err,
          upstream, cancelled, response, errorsHandled, client, req, compression, hc, hist,
          wrr, gauges, rt>>

\* What neither a dispatcher nor a health checker touches.
aside == <<wrr, gauges, rt>>

\* Everything but the health checkers.
requestVars == <<cfg, window, offset, pc, peer, ctx, err, upstream, cancelled, response,
                 errorsHandled, client, req, compression, hist>>

\* ---------------------------------------------------------- RollingWindow
\* Observe with a write cursor that stays where it is.
ObserveWithoutAdvance(t, value) ==
    IF Len(window[t]) < WindowSize
    THEN /\ window' = [window EXCEPT ![t] = Append(@, value)]
         /\ offset' = offset
    ELSE /\ window' = [window EXCEPT ![t] = [@ EXCEPT ![offset[t] + 1] = value]]
         /\ offset' = offset

\* r.window[r.offset] is outside the slice: Observe panics with index out of range.
ObservePanics(t, size) == Len(window[t]) >= size /\ offset[t] >= Len(window[t])

\* Observe on a window made by NewRollingWindow(size), where it does not panic.
ObserveOfSize(t, value, size) ==
    IF Len(window[t]) < size
    THEN /\ window' = [window EXCEPT ![t] = Append(@, value)]
         /\ offset' = offset
    ELSE /\ window' = [window EXCEPT ![t] = [@ EXCEPT ![offset[t] + 1] = value]]
         /\ offset' = [offset EXCEPT ![t] = (@ + 1) % size]

Observe(t, value) == ObserveOfSize(t, value, WindowSize)

ObserveSuccess(t) == Observe(t, 1)

ObserveFailure(t) == Observe(t, 0)

RECURSIVE SumOf(_)
SumOf(w) == IF w = <<>> THEN 0 ELSE Head(w) + SumOf(Tail(w))

Sum(t) == SumOf(window[t])

\* float64(result) / float64(len(r.window)), kept as the two integers of the
\* quotient; den = 0 is the NaN of an empty window.
Avg(t) == [num |-> SumOf(window[t]), den |-> Len(window[t])]

\* r.window = make([]int, 0, r.size) on each window of ts; offset is not
\* assigned.
ResetEach(ts) ==
    /\ window' = [t \in Targets |-> IF t \in ts THEN <<>> ELSE window[t]]
    /\ offset' = offset

Reset(t) == ResetEach({t})

\* Any observation is enough.
HasEnoughAnyObservation(t) == Len(window[t]) # 0

\* float64(len(r.window)/r.size) > 0.9: the division is the integer one, and
\* the comparison is done in tenths.
HasEnoughObservations(t) ==
    IF Len(window[t]) = 0 THEN FALSE
    ELSE (Len(window[t]) \div WindowSize) * 10 > 9

\* ------------------------------------------------------- RPCHealthchecker
IsHealthyIgnoringTaint(t) == isHealthy[t]

IsHealthy(t) == IF isTainted[t] THEN FALSE ELSE isHealthy[t]

\* ----------------------------------------------------- HealthcheckManager
RECURSIVE FirstHealthyFrom(_, _)
FirstHealthyFrom(idx, excludedIdx) ==
    IF idx >= NumTargets THEN 0
    ELSE IF idx \notin excludedIdx /\ IsHealthy(idx) THEN idx
    ELSE FirstHealthyFrom(idx + 1, excludedIdx)

SeqRange(s) == {s[i] : i \in 1 .. Len(s)}

GetNextHealthyTargetIndexExcluding(excludedIdx) ==
    FirstHealthyFrom(0, SeqRange(excludedIdx))

GetNextHealthyTargetIndex == FirstHealthyFrom(0, {})

\* ------------------------------------------------------------ the request
NoTarget == 0 - 1

EmptyContext == [retries |-> 0, reroutes |-> 0, visitedTargets |-> <<>>, targetName |-> NoTarget]

NoCounters == [failure |-> 0, retry |-> 0, rerouted |-> 0]

Unhealthy == {t \in Targets : ~IsHealthy(t)}

\* History of one request: every forward with the health its target had when
\* it was chosen, and what the health did since the request entered.
EmptyHistory ==
    [attempts |-> <<>>, healthChanges |-> 0, everUnhealthy |-> {},
     noneHealthyAtEntry |-> FALSE, windowBefore |-> <<>>, sentAtCancel |-> NoTarget,
     responseAtCancel |-> NoResponse, goodAnswer |-> FALSE, readFailed |-> FALSE]

\* The client went away during the last attempt sent.
Cancelled(h) ==
    [h EXCEPT !.sentAtCancel = Len(h.attempts), !.responseAtCancel = response]

Sent(h) == [i \in 1 .. Len(h.attempts) |-> h.attempts[i].target]

LowestCandidate(t, visited) ==
    /\ IsHealthy(t)
    /\ t \notin visited
    /\ \A u \in Targets : (u < t /\ IsHealthy(u)) => u \in visited

\* A forward of the outgoing request out to target t, chosen by the selection
\* (selected = TRUE) or repeated by a per-target retry.
Forward(h, t, selected, out) ==
    [h EXCEPT
        !.attempts = Append(@,
            [target |-> t,
             selected |-> selected,
             healthy |-> IF selected THEN IsHealthy(t) ELSE h.attempts[Len(h.attempts)].healthy,
             lowest |-> IF selected THEN LowestCandidate(t, SeqRange(Sent(h)))
                        ELSE h.attempts[Len(h.attempts)].lowest,
             sent |-> out,
             class |-> "inflight"]),
        !.windowBefore = <<window'[t], offset'[t]>>]

\* How the last forward ended: "success", "fail" or "canceled".
Outcome(h, cl) == [h EXCEPT !.attempts[Len(h.attempts)].class = cl]

\* ------------------------------------------------------ request bodies
\* A body is a sequence of bytes.  A gzip stream is a header, the deflated
\* data and a trailer that only Close writes.
Payload == <<"b1", "b2">>

GzipHeader == "gzip-header"

GzipTrailer == "gzip-trailer"

\* gzip.NewWriter, Write, Close.
Gzip(p) == <<GzipHeader>> \o p \o <<GzipTrailer>>

\* gzip.NewReader succeeds: the stream starts with a header.
HasGzipHeader(b) == Len(b) >= 1 /\ b[1] = GzipHeader

\* Reading the whole stream succeeds: the trailer is there.
IsGzip(b) == Len(b) >= 2 /\ b[1] = GzipHeader /\ b[Len(b)] = GzipTrailer

\* The data of a complete stream.
Gunzip(b) == SubSeq(b, 2, Len(b) - 1)

EmptyRequest == [body |-> <<>>, encoding |-> ""]

ClientRequests ==
    {[body |-> Payload, encoding |-> ""], [body |-> Gzip(Payload), encoding |-> "gzip"]}

\* The *http.Request the server hands to the dispatcher.
\* bodybuf is the buffer the Director puts in the request context.
NewRequest(c) ==
    [body |-> c.body, contentLength |-> Len(c.body), contentEncoding |-> c.encoding,
     bodybuf |-> <<>>]

\* proxy.Director of a target: the request the transport sends.  With a gzip
\* body and a target without compression the body is read and decompressed.
DirectorDecompresses(r, compress) ==
    r.contentLength > 0 /\ r.contentEncoding = "gzip" /\ ~compress

\* ioutil.ReadAll(uncompressed) fails: zap.L().Fatal ends the process.
DirectorFatal(r, compress) ==
    DirectorDecompresses(r, compress) /\ HasGzipHeader(r.body) /\ ~IsGzip(r.body)

Director(r, compress) ==
    IF r.contentLength = 0 THEN r
    ELSE IF ~DirectorDecompresses(r, compress) THEN [r EXCEPT !.bodybuf = <<>>]
    ELSE IF ~HasGzipHeader(r.body) THEN [r EXCEPT !.body = <<>>, !.bodybuf = <<>>]
    ELSE [body |-> Gunzip(r.body),
          contentLength |-> Len(Gunzip(r.body)),
          contentEncoding |-> "",
          bodybuf |-> <<>>]

\* The transport read the first n bytes of the body through the TeeReader.
TeeRead(r, n) == [r EXCEPT !.bodybuf = SubSeq(r.body, 1, n)]

\* ErrorHandler: request.Body = io.NopCloser(buf) when the context has a bodybuf.
RestoreBody(r) == IF r.contentLength > 0 THEN [r EXCEPT !.body = r.bodybuf] ELSE r

\* The transport can send the request: the body has the announced length.
Sendable(r) == Len(r.body) = r.contentLength

\* --------------------------------------- package main: HttpFailoverProxy
\* A dispatcher that allows one reroute more than configured.
ReroutesExhaustedLate(c) == c.reroutes > cfg.reroutes + 1

\* A dispatcher whose budget is the number of targets, not the configured one.
ReroutesExhaustedAtTargets(c) == c.reroutes > NumTargets

ReroutesExhausted(c) == c.reroutes > cfg.reroutes

GetNextTargetExcluding(indexes) == GetNextHealthyTargetIndexExcluding(indexes)

\* HttpFailoverProxy.ServeHTTP with request context c; counters and h are the
\* counters and the history as the caller leaves them.
\* peer.Proxy.ServeHTTP(w, r): the Director of target t, then the transport.
ProxyServeHTTP(t, r, h, selected) ==
    IF DirectorFatal(r, compression[t])
    THEN /\ pc' = "fatal"
         /\ req' = r
         /\ hist' = h
    ELSE /\ pc' = "inflight"
         /\ req' = Director(r, compression[t])
         /\ hist' = Forward(h, t, selected, req')

ServeHTTP(c, counters, h, r) ==
    IF ReroutesExhausted(c)
    THEN /\ errorsHandled' = [counters EXCEPT !.failure = @ + 1]
         /\ response' = ServiceNotAvailable
         /\ pc' = "done"
         /\ ctx' = c
         /\ hist' = h
         /\ req' = r
         /\ UNCHANGED peer
    ELSE LET idx == GetNextTargetExcluding(c.visitedTargets) IN
         /\ peer' = idx
         /\ ctx' = c
         /\ ProxyServeHTTP(idx, r, h, TRUE)
         /\ errorsHandled' = counters
         /\ UNCHANGED response

HandleRequest ==
    /\ draft = "main"
    /\ pc = "entry"
    /\ UNCHANGED <<draft, aside, cfg, isHealthy, isTainted, window, offset, err, upstream, cancelled,
                   client, compression, hc>>
    /\ ServeHTTP(ctx, errorsHandled,
                 [hist EXCEPT !.everUnhealthy = Unhealthy,
                              !.noneHealthyAtEntry = (Unhealthy = Targets)],
                 req)

\* The classification the dispatcher is specified to make: 429 and 5xx fail.
FailingStatus(status) == status = StatusTooManyRequests \/ status >= StatusInternalServerError

\* The upstream answered with a status that is neither 429 nor 5xx.
Answered(h, status) == [h EXCEPT !.goodAnswer = @ \/ ~FailingStatus(status)]

\* An error value: its kind and, for "status code: %d", the code in its text.
Error(kind, code) == [kind |-> kind, code |-> code]

NoError == Error("none", 0)

\* proxy.ModifyResponse: the error it returns, which the reverse proxy hands
\* to ErrorHandler after dropping the response.
ModifyResponse(r) ==
    IF r.status = StatusTooManyRequests THEN Error("rate limited", 0)
    ELSE IF r.status >= StatusMultipleChoices THEN Error("status code", r.status)
    ELSE NoError

\* An error handler that does not tell a cancellation from a failure.
IsClientCanceledNever(e) == FALSE

IsClientCanceled(e) == e.kind = "canceled"

\* An error handler that allows one retry more than configured.
RetriesLeftInclusive(c) == c.retries <= cfg.retries

\* retries < AllowedNumberOfRetriesPerTarget
RetriesLeft(c) == c.retries < cfg.retries

\* proxy.ErrorHandler of target peer.
ErrorHandler ==
    /\ draft = "main"
    /\ pc = "errorHandler"
    /\ IF IsClientCanceled(err)
       THEN /\ pc' = "done"
            /\ UNCHANGED <<window, offset, peer, ctx, response, errorsHandled, req, hist>>
       ELSE /\ ObserveFailure(peer)
            /\ IF RetriesLeft(ctx)
               THEN /\ errorsHandled' = [errorsHandled EXCEPT !.retry = @ + 1]
                    /\ ctx' = [ctx EXCEPT !.retries = @ + 1]
                    /\ ProxyServeHTTP(peer, RestoreBody(req), hist, FALSE)
                    /\ UNCHANGED <<peer, response>>
               ELSE ServeHTTP([reroutes |-> ctx.reroutes + 1,
                               visitedTargets |-> Append(ctx.visitedTargets, peer),
                               targetName |-> peer,
                               retries |-> 0],
                              [errorsHandled EXCEPT !.rerouted = @ + 1],
                              hist,
                              RestoreBody(req))
    /\ err' = NoError
    /\ UNCHANGED <<draft, aside, cfg, isHealthy, isTainted, upstream, cancelled, client, compression, hc>>

\* ------------------------------------------- the upstream and the client
\* The upstream answers: the reverse proxy calls ModifyResponse and either
\* copies the response to the client or calls ErrorHandler.
UpstreamResponds ==
    /\ draft = "main"
    /\ pc = "inflight"
    /\ Sendable(req)
    /\ req' = TeeRead(req, Len(req.body))
    /\ \E r \in UpstreamResponses :
          IF ModifyResponse(r) # NoError
          THEN /\ pc' = "errorHandler"
               /\ err' = ModifyResponse(r)
               /\ hist' = Answered(Outcome(hist, "fail"), r.status)
               /\ UNCHANGED <<window, offset, upstream, response>>
          ELSE /\ ObserveSuccess(peer)
               /\ upstream' = r
               /\ response' = r
               /\ pc' = "done"
               /\ hist' = Answered(Outcome(hist, "success"), r.status)
               /\ UNCHANGED err
    /\ UNCHANGED <<draft, aside, cfg, isHealthy, isTainted, peer, ctx, cancelled, errorsHandled,
                   client, compression, hc>>

\* The transport fails: no connection, a connection lost while the body is
\* written, or a body shorter than the Content-Length it announced.
TransportError ==
    /\ draft = "main"
    /\ pc = "inflight"
    /\ pc' = "errorHandler"
    /\ err' = Error("transport", 0)
    /\ \E n \in 0 .. Len(req.body) : req' = TeeRead(req, n)
    /\ hist' = Outcome(hist, "fail")
    /\ UNCHANGED <<draft, aside, cfg, isHealthy, isTainted, window, offset, peer, ctx, upstream,
                   cancelled, response, errorsHandled, client, compression, hc>>

\* Transport.ResponseHeaderTimeout = UpstreamTimeout expires.
UpstreamTimeout ==
    /\ draft = "main"
    /\ pc = "inflight"
    /\ pc' = "errorHandler"
    /\ err' = Error("timeout", 0)
    /\ Sendable(req)
    /\ req' = TeeRead(req, Len(req.body))
    /\ hist' = Outcome(hist, "fail")
    /\ UNCHANGED <<draft, aside, cfg, isHealthy, isTainted, window, offset, peer, ctx, upstream,
                   cancelled, response, errorsHandled, client, compression, hc>>

\* The client cancels while the attempt is in flight: the transport returns
\* context.Canceled.
ClientCancel ==
    /\ draft = "main"
    /\ pc = "inflight"
    /\ cancelled' = TRUE
    /\ pc' = "errorHandler"
    /\ err' = Error("canceled", 0)
    /\ hist' = Cancelled(Outcome(hist, "canceled"))
    /\ UNCHANGED <<draft, aside, cfg, isHealthy, isTainted, window, offset, peer, ctx, upstream,
                   response, errorsHandled, client, req, compression, hc>>

\* ------------------------------------------------- health of the targets
\* The health vector moved while the request is being handled.
HealthMoved(h) ==
    IF pc = "entry" THEN h
    ELSE [h EXCEPT !.healthChanges = @ + 1,
                   !.everUnhealthy = @ \cup {t \in Targets : isTainted'[t] \/ ~isHealthy'[t]}]

\* Health transitions are followed before the request enters and, up to the
\* bound, while it is handled.
HealthMayMove ==
    \/ pc = "entry"
    \/ pc \notin {"done", "fatal"} /\ hist.healthChanges < MaxHealthChanges

checkAndSetGasLeftHealth(t, ok) ==
    /\ HealthMayMove
    /\ isHealthy[t] # ok
    /\ isHealthy' = [isHealthy EXCEPT ![t] = ok]
    /\ UNCHANGED isTainted
    /\ hist' = HealthMoved(hist)
    /\ UNCHANGED <<draft, aside, cfg, window, offset, pc, peer, ctx, err, upstream, cancelled,
                   response, errorsHandled, client, req, compression, hc>>

Taint(t) ==
    /\ HealthMayMove
    /\ ~isTainted[t]
    /\ isTainted' = [isTainted EXCEPT ![t] = TRUE]
    /\ UNCHANGED isHealthy
    /\ hist' = HealthMoved(hist)
    /\ UNCHANGED <<draft, aside, cfg, window, offset, pc, peer, ctx, err, upstream, cancelled,
                   response, errorsHandled, client, req, compression, hc>>

RemoveTaint(t) ==
    /\ HealthMayMove
    /\ isTainted[t]
    /\ isTainted' = [isTainted EXCEPT ![t] = FALSE]
    /\ UNCHANGED isHealthy
    /\ hist' = HealthMoved(hist)
    /\ UNCHANGED <<draft, aside, cfg, window, offset, pc, peer, ctx, err, upstream, cancelled,
                   response, errorsHandled, client, req, compression, hc>>

Probe == \E t \in Targets, ok \in BOOLEAN : checkAndSetGasLeftHealth(t, ok)

TaintTarget == \E t \in Targets : Taint(t)

UntaintTarget == \E t \in Targets : RemoveTaint(t)

\* ---------------------------------------- RPCHealthchecker, in full
\* The health checker of a target as package internal/proxy has it, and as
\* the earlier draft of package main has it (draft "part_018": both probes
\* set isHealthy, the taint is a flag set by SetTaint).  hc[t] holds what
\* isHealthy[t] and isTainted[t] do not: the taint wait time, the time of the
\* last taint removal (removed is FALSE for the zero Time, elapsed is the time
\* since it otherwise), the goroutines that wait to remove a taint and how
\* many of them were started by a taint before the latest one, the probe
\* goroutines that have not returned, whether the probe timeout is configured
\* longer than the probe interval, and for the properties the outcome of the
\* last gas-left probe that returned, the number of taints in a row that
\* grew the wait time and the parity of the calls of Taint on a health checker
\* that was tainted already.
NewHealthchecker(longTimeout) ==
    [currentTaintWaitTime |-> initialTaintWaitTime, removed |-> FALSE, elapsed |-> 0,
     timers |-> 0, stale |-> 0, gasLeft |-> 0, blockNumber |-> 0, longTimeout |-> longTimeout,
     lastGasLeft |-> "none", streak |-> 0, retaints |-> 0]

\* The health checkers do not share state; one of them is followed at a time.
Others(t) == Targets \ {t}

Quiet(t) ==
    \A u \in Others(t) :
        /\ isHealthy[u] /\ ~isTainted[u]
        /\ hc[u] \in {NewHealthchecker(b) : b \in BOOLEAN}

\* One probe cycle: go h.checkAndSetBlockNumberHealth(); go h.checkAndSetGasLeftHealth().
\* The goroutines are not waited for.
CheckAndSetHealth(h) ==
    [h EXCEPT !.gasLeft = @ + 1, !.blockNumber = @ + 1]

\* Start: a cycle at once and one at every tick of the ticker.  A probe ends
\* at its timeout at the latest, so with a timeout no longer than the
\* interval the probes of a cycle have returned when the next tick comes.
Start(t) ==
    /\ draft \in {"part_018", "internal"}
    /\ Quiet(t)
    /\ hc[t].gasLeft < MaxOutstanding /\ hc[t].blockNumber < MaxOutstanding
    /\ hc[t].longTimeout \/ (hc[t].gasLeft = 0 /\ hc[t].blockNumber = 0)
    /\ hc' = [hc EXCEPT ![t] = CheckAndSetHealth(@)]
    /\ UNCHANGED <<draft, aside, isHealthy, isTainted, requestVars>>

\* checkAndSetBlockNumberHealth, from the return of checkBlockNumber on.
checkAndSetBlockNumberHealth(t, ok) ==
    /\ draft \in {"part_018", "internal"}
    /\ Quiet(t)
    /\ hc[t].blockNumber > 0
    /\ hc' = [hc EXCEPT ![t].blockNumber = @ - 1]
    /\ isHealthy' = IF draft = "part_018" THEN [isHealthy EXCEPT ![t] = ok] ELSE isHealthy
    /\ UNCHANGED <<draft, aside, isTainted, requestVars>>

\* checkAndSetGasLeftHealth, from the return of checkGasLimit on.
GasLeftReturns(t, ok) ==
    /\ draft \in {"part_018", "internal"}
    /\ Quiet(t)
    /\ hc[t].gasLeft > 0
    /\ hc' = [hc EXCEPT ![t].gasLeft = @ - 1,
                        ![t].lastGasLeft = IF ok THEN "ok" ELSE "failed"]
    /\ isHealthy' = [isHealthy EXCEPT ![t] = ok]
    /\ UNCHANGED <<draft, aside, isTainted, requestVars>>

Min(a, b) == IF a < b THEN a ELSE b

\* time.Since(h.lastTaintRemoval); for the zero Time it is the largest
\* Duration, longer than any duration of this package.
SinceLastTaintRemoval(h) == IF h.removed THEN h.elapsed ELSE 2 ^ 30

NextTaintWaitTimeUncapped(h) ==
    IF SinceLastTaintRemoval(h) <= resetTaintWaitTimeAfterDuration
    THEN h.currentTaintWaitTime * 2
    ELSE initialTaintWaitTime

\* The wait time Taint sets.
NextTaintWaitTime(h) ==
    IF SinceLastTaintRemoval(h) <= resetTaintWaitTimeAfterDuration
    THEN IF h.currentTaintWaitTime * 2 > maxTaintWaitTime
         THEN maxTaintWaitTime
         ELSE h.currentTaintWaitTime * 2
    ELSE initialTaintWaitTime

\* The number of taints in a row that doubled the wait time, the one that
\* set it to initialTaintWaitTime included.
NextStreak(h) ==
    IF SinceLastTaintRemoval(h) <= resetTaintWaitTimeAfterDuration
    THEN Min(h.streak + 1, MaxStreak)
    ELSE 1

TaintAlwaysTakesEffect(t) == TRUE

ScheduleNoRemoval(h) == h.timers

\* go func() { <-time.After(h.currentTaintWaitTime); h.RemoveTaint() }()
ScheduleRemoval(h) == h.timers + 1

\* if h.isTainted { return }
TaintTakesEffect(t) == ~isTainted[t]

\* A call of Taint on a health checker that is tainted.
Retainted(h, tainted) == [h EXCEPT !.retaints = IF tainted THEN (@ + 1) % 2 ELSE @]

RPCHealthchecker_Taint(t) ==
    /\ draft = "internal"
    /\ Quiet(t)
    /\ IF TaintTakesEffect(t)
       THEN /\ hc[t].timers < MaxTimers
            /\ isTainted' = [isTainted EXCEPT ![t] = TRUE]
            /\ hc' = [hc EXCEPT ![t] = [Retainted(@, isTainted[t]) EXCEPT
                                           !.currentTaintWaitTime = NextTaintWaitTime(hc[t]),
                                           !.streak = NextStreak(hc[t]),
                                           !.stale = hc[t].timers,
                                           !.timers = ScheduleRemoval(hc[t])]]
       ELSE /\ hc' = [hc EXCEPT ![t] = Retainted(@, isTainted[t])]
            /\ UNCHANGED isTainted
    /\ UNCHANGED <<draft, aside, isHealthy, requestVars>>

RemovedNow(h) == [h EXCEPT !.removed = TRUE, !.elapsed = 0]

\* RemoveTaint called from outside, as the callers of this repository do: on
\* a health checker they have tainted.
RPCHealthchecker_RemoveTaint(t) ==
    /\ draft = "internal"
    /\ Quiet(t)
    /\ isTainted[t]
    /\ isTainted' = [isTainted EXCEPT ![t] = FALSE]
    /\ hc' = [hc EXCEPT ![t] = RemovedNow(@)]
    /\ UNCHANGED <<draft, aside, isHealthy, requestVars>>

\* The goroutine Taint started: <-time.After(h.currentTaintWaitTime); h.RemoveTaint().
\* Nothing ties the goroutine to the taint that started it: whichever of the
\* pending ones is due calls RemoveTaint.
TaintTimerFires(t) ==
    /\ draft = "internal"
    /\ Quiet(t)
    /\ \E old \in BOOLEAN :
          /\ IF old THEN hc[t].stale > 0 ELSE hc[t].timers > hc[t].stale
          /\ hc' = [hc EXCEPT ![t] = [RemovedNow(@) EXCEPT
                                         !.timers = @ - 1,
                                         !.stale = IF old THEN @ - 1 ELSE @]]
    /\ isTainted' = [isTainted EXCEPT ![t] = FALSE]
    /\ UNCHANGED <<draft, aside, isHealthy, requestVars>>

\* Time goes by after a taint removal: to the end of the reset window, and
\* past it.
ElapsedSamples == {0, resetTaintWaitTimeAfterDuration, resetTaintWaitTimeAfterDuration + 1}

TimePasses(t) ==
    /\ draft = "internal"
    /\ Quiet(t)
    /\ hc[t].removed
    /\ \E e \in ElapsedSamples :
          /\ e > hc[t].elapsed
          /\ hc' = [hc EXCEPT ![t].elapsed = e]
    /\ UNCHANGED <<draft, aside, isHealthy, isTainted, requestVars>>

SetTaint(t, tainted) ==
    /\ draft = "part_018"
    /\ Quiet(t)
    /\ isTainted' = [isTainted EXCEPT ![t] = tainted]
    /\ UNCHANGED <<draft, aside, isHealthy, hc, requestVars>>

\* ------------------------------------------------------- specifications
\* NewWeightedRoundRobin: no items.
NewWeightedRoundRobin == <<>>

\* Gauges that were never set.
NoGauges == [t \in Targets |-> [healthy |-> 0, tainted |-> 0, gasLimit |-> 0, blockNumber |-> 0]]

\* No round trip asked for.
NoRoundTrip == [pc |-> "idle", retries |-> 0, trips |-> 0]

InitAside ==
    /\ wrr = NewWeightedRoundRobin
    /\ gauges = NoGauges
    /\ rt = NoRoundTrip

InitCommon ==
    /\ InitAside
    /\ isHealthy = [t \in Targets |-> TRUE]
    /\ isTainted = [t \in Targets |-> FALSE]
    /\ window = [t \in Targets |-> <<>>]
    /\ offset = [t \in Targets |-> 0]
    /\ pc = "entry"
    /\ peer = 0
    /\ ctx = EmptyContext
    /\ err = NoError
    /\ upstream = NoResponse
    /\ cancelled = FALSE
    /\ response = NoResponse
    /\ errorsHandled = NoCounters
    /\ req = NewRequest(client)
    /\ hist = EmptyHistory

NoProbes == [t \in Targets |-> NewHealthchecker(FALSE)]

InitMain ==
    /\ draft = "main"
    /\ hc = NoProbes
    /\ client = EmptyRequest
    /\ compression = [t \in Targets |-> FALSE]
    /\ cfg \in [retries : 0 .. MaxRetries, reroutes : 0 .. MaxReroutes]
    /\ InitCommon

NextMain ==
    \/ HandleRequest
    \/ UpstreamResponds
    \/ TransportError
    \/ UpstreamTimeout
    \/ ClientCancel
    \/ ErrorHandler
    \/ Probe
    \/ TaintTarget
    \/ UntaintTarget

SpecMain == InitMain /\ [][NextMain]_vars

\* The same dispatcher with requests that have a body, plain or gzip, and
\* targets with and without request compression.
InitMainBody ==
    /\ draft = "main"
    /\ hc = NoProbes
    /\ client \in ClientRequests
    /\ compression \in [Targets -> BOOLEAN]
    /\ cfg \in [retries : 0 .. MaxRetries, reroutes : 0 .. MaxReroutes]
    /\ InitCommon

SpecMainBody == InitMainBody /\ [][NextMain]_vars

\* ================================================= package internal/proxy
\* The two drafts of Proxy.ServeHTTP in internal/proxy/proxy.go walk the
\* targets in a for loop; peer is the loop index, and a request that was read
\* stands at "loop" before each iteration.

StatusText(code) ==
    CASE code = StatusInternalServerError -> "Internal Server Error"
      [] code = StatusBadGateway -> "Bad Gateway"
      [] code = StatusServiceUnavailable -> "Service Unavailable"
      [] OTHER -> "OK"

errServiceUnavailable(w) == HttpError(w, StatusText(StatusServiceUnavailable), StatusServiceUnavailable)

hasError(r) == r.status = StatusTooManyRequests \/ r.status >= StatusInternalServerError

HasNodeProviderFailed(statusCode) ==
    statusCode >= StatusInternalServerError \/ statusCode = StatusTooManyRequests

\* dst.Header().Set(k, v[0]) for a header that has values.
copyHeaders(dst, src) ==
    IF Len(src.header) = 0 THEN dst ELSE [dst EXCEPT !.header = <<src.header[1]>>]

\* What http.TimeoutHandler leaves in pw when the node provider's reverse
\* proxy failed to reach the upstream, and when the timeout expired.
TimeoutHandlerStatuses == {StatusBadGateway, StatusServiceUnavailable}

\* ---- the outgoing request of the first draft (internal/proxy/target.go)
hasContentEncodingSettoGZIP(r) == r.contentEncoding = "gzip"

\* A new request over a copy of r's body; http.NewRequestWithContext sets the
\* Content-Length of a *bytes.Buffer body to its length.
initializeRequestWithContext(r) ==
    [body |-> r.body, contentLength |-> Len(r.body),
     contentEncoding |-> IF hasContentEncodingSettoGZIP(r) THEN "gzip" ELSE "",
     bodybuf |-> <<>>]

\* gzip.NewReader or io.Copy returns an error on a body that is no gzip stream.
gunzipFails(r) == ~IsGzip(r.body)

gunzip(r) ==
    [r EXCEPT !.body = Gunzip(r.body), !.contentLength = Len(Gunzip(r.body)),
              !.contentEncoding = ""]

\* The gzip.Writer is written to and then dropped without Close or Flush: the
\* buffer holds the gzip header and the n chunks the compressor has emitted
\* so far, and never the trailer.
gzip(r, n) ==
    LET body == <<GzipHeader>> \o SubSeq(r.body, 1, n)
    IN  [r EXCEPT !.body = body, !.contentLength = Len(body), !.contentEncoding = "gzip"]

buildRequestFails(r, compress) ==
    hasContentEncodingSettoGZIP(r) /\ ~compress /\ gunzipFails(initializeRequestWithContext(r))

buildRequestWithContext(r, compress, n) ==
    LET out == initializeRequestWithContext(r)
    IN  IF hasContentEncodingSettoGZIP(r)
        THEN IF compress THEN out ELSE gunzip(out)
        ELSE IF compress THEN gzip(out, n) ELSE out

\* ---- the outgoing request of the second draft (internal/proxy/nodeprovider.go)
\* middleware.Gunzip changes the request it is given, which is the request
\* the loop of Proxy.ServeHTTP hands to every target.
middleware_Gunzip(r) ==
    IF r.contentEncoding # "gzip" THEN r
    ELSE [r EXCEPT !.body = Gunzip(r.body), !.contentLength = Len(Gunzip(r.body)),
                   !.contentEncoding = ""]

NodeProvider_ServeHTTP(r, compress) ==
    IF ~compress /\ r.contentEncoding = "gzip" THEN middleware_Gunzip(r) ELSE r

\* r.Body = io.NopCloser(bytes.NewBuffer(body.Bytes()))
ResetBody(r) == [r EXCEPT !.body = r.bodybuf]

InternalEntry(h) ==
    [h EXCEPT !.everUnhealthy = Unhealthy, !.noneHealthyAtEntry = (Unhealthy = Targets)]

\* Reading the request body, before the loop.
ServeHTTPRead ==
    /\ draft \in {"internal1", "internal2"}
    /\ pc = "entry"
    /\ \E readOk \in BOOLEAN, n \in 0 .. Len(client.body) :
          /\ readOk => n = Len(client.body)
          /\ req' = [req EXCEPT !.bodybuf = SubSeq(client.body, 1, n)]
          /\ hist' = [InternalEntry(hist) EXCEPT !.readFailed = ~readOk]
          /\ IF draft = "internal1"
             THEN /\ response' = IF readOk THEN response
                                 ELSE HttpError(response, StatusText(StatusInternalServerError),
                                                StatusInternalServerError)
                  /\ pc' = "loop"
             ELSE IF readOk
                  THEN pc' = "loop" /\ UNCHANGED response
                  ELSE pc' = "done" /\ response' = errServiceUnavailable(response)
    /\ peer' = 0
    /\ UNCHANGED <<draft, aside, cfg, isHealthy, isTainted, window, offset, ctx, err, upstream,
                   cancelled, errorsHandled, client, compression, hc>>

\* The node provider failed in the second draft: the failure is counted as a
\* reroute and the loop goes on.
Rerouted(h) ==
    /\ errorsHandled' = [errorsHandled EXCEPT !.rerouted = @ + 1]
    /\ peer' = peer + 1
    /\ pc' = "loop"
    /\ hist' = h
    /\ UNCHANGED response

\* One iteration of the loop up to the call of the target.
ServeHTTPRange ==
    /\ draft \in {"internal1", "internal2"}
    /\ pc = "loop"
    /\ UNCHANGED <<draft, aside, cfg, isHealthy, isTainted, window, offset, ctx, err, upstream, cancelled,
                   client, compression, hc>>
    /\ IF peer >= NumTargets
       THEN /\ response' = errServiceUnavailable(response)
            /\ pc' = "done"
            /\ UNCHANGED <<peer, errorsHandled, hist, req>>
       ELSE IF draft = "internal1" /\ cancelled
       THEN /\ pc' = "done"
            /\ UNCHANGED <<peer, response, errorsHandled, hist, req>>
       ELSE IF ~IsHealthy(peer)
       THEN /\ peer' = peer + 1
            /\ UNCHANGED <<pc, response, errorsHandled, hist, req>>
       ELSE IF draft = "internal1"
       THEN /\ req' = ResetBody(req)
            /\ IF buildRequestFails(req', compression[peer])
               THEN /\ peer' = peer + 1
                    /\ UNCHANGED <<pc, response, errorsHandled, hist>>
               ELSE /\ pc' = "inflight"
                    /\ \E n \in 0 .. Len(req'.body) :
                          hist' = Forward(hist, peer, TRUE,
                                          buildRequestWithContext(req', compression[peer], n))
                    /\ UNCHANGED <<peer, response, errorsHandled>>
       ELSE /\ req' = NodeProvider_ServeHTTP(ResetBody(req), compression[peer])
            /\ IF cancelled
               THEN Rerouted(Outcome(Forward(hist, peer, TRUE, req'), "fail"))
               ELSE /\ pc' = "inflight"
                    /\ hist' = Forward(hist, peer, TRUE, req')
                    /\ UNCHANGED <<peer, response, errorsHandled>>

\* The rest of an iteration of the first draft, from the result of target.Do.
ServeHTTPResult(resp, e, copyOk, h) ==
    IF e # "none" \/ hasError(resp)
    THEN /\ peer' = peer + 1
         /\ pc' = "loop"
         /\ hist' = Outcome(h, "fail")
         /\ UNCHANGED response
    ELSE /\ response' = IF copyOk THEN Write(response, resp.body)
                        ELSE HttpError(response, StatusText(StatusInternalServerError),
                                       StatusInternalServerError)
         /\ pc' = "done"
         /\ hist' = Outcome(h, "success")
         /\ UNCHANGED peer

\* The rest of an iteration of the second draft, from what the handler wrote in pw.
ServeHTTPWritten(pw, h, cl) ==
    IF HasNodeProviderFailed(pw.status)
    THEN Rerouted(Outcome(h, cl))
    ELSE /\ response' = Write(WriteHeader(copyHeaders(response, pw), pw.status), pw.body)
         /\ pc' = "done"
         /\ hist' = Outcome(h, "success")
         /\ UNCHANGED <<peer, errorsHandled>>

TargetResponds ==
    /\ draft \in {"internal1", "internal2"}
    /\ pc = "inflight"
    /\ \E r \in UpstreamResponses, copyOk \in BOOLEAN :
          /\ upstream' = r
          /\ IF draft = "internal1"
             THEN ServeHTTPResult(r, "none", copyOk, Answered(hist, r.status)) /\ UNCHANGED errorsHandled
             ELSE copyOk /\ Sendable(req) /\ ServeHTTPWritten(r, Answered(hist, r.status), "fail")
    /\ UNCHANGED <<draft, aside, cfg, isHealthy, isTainted, window, offset, ctx, err, cancelled,
                   client, req, compression, hc>>

\* A transport error, or the expiry of the upstream timeout.
TargetFails ==
    /\ draft \in {"internal1", "internal2"}
    /\ pc = "inflight"
    /\ \E e \in {"transport", "timeout"} :
          IF draft = "internal1"
          THEN ServeHTTPResult(NoResponse, e, TRUE, hist) /\ UNCHANGED errorsHandled
          ELSE ServeHTTPWritten(
                   [NoResponse EXCEPT !.status = IF e = "transport" THEN StatusBadGateway
                                                 ELSE StatusServiceUnavailable], hist, "fail")
    /\ UNCHANGED <<draft, aside, cfg, isHealthy, isTainted, window, offset, ctx, err, upstream, cancelled,
                   client, req, compression, hc>>

\* The client goes away during an attempt.  The first draft sends with a
\* context derived from context.Background(), so the attempt goes on; in the
\* second draft the timeout handler or the reverse proxy ends the attempt.
ClientCancelInternal ==
    /\ draft \in {"internal1", "internal2"}
    /\ pc = "inflight"
    /\ ~cancelled
    /\ cancelled' = TRUE
    /\ IF draft = "internal1"
       THEN /\ hist' = Cancelled(hist)
            /\ UNCHANGED <<pc, peer, response, errorsHandled>>
       ELSE \E code \in TimeoutHandlerStatuses :
               ServeHTTPWritten([NoResponse EXCEPT !.status = code], Cancelled(hist), "canceled")
    /\ UNCHANGED <<draft, aside, cfg, isHealthy, isTainted, window, offset, ctx, err, upstream,
                   client, req, compression, hc>>

InitInternal ==
    /\ draft \in {"internal1", "internal2"}
    /\ hc = NoProbes
    /\ client = EmptyRequest
    /\ compression = [t \in Targets |-> FALSE]
    /\ cfg = [retries |-> 0, reroutes |-> 0]
    /\ InitCommon

NextInternal ==
    \/ ServeHTTPRead
    \/ ServeHTTPRange
    \/ TargetResponds
    \/ TargetFails
    \/ ClientCancelInternal
    \/ Probe
    \/ TaintTarget
    \/ UntaintTarget

SpecInternal == InitInternal /\ [][NextInternal]_vars

\* Requests with a body, plain or gzipped, against targets with and without
\* request compression.
InitInternalBody ==
    /\ draft \in {"internal1", "internal2"}
    /\ hc = NoProbes
    /\ client \in ClientRequests
    /\ compression \in [Targets -> BOOLEAN]
    /\ cfg = [retries |-> 0, reroutes |-> 0]
    /\ InitCommon

SpecInternalBody == InitInternalBody /\ [][NextInternal]_vars

\* =============================================== the health checkers alone
InitHealth ==
    /\ draft \in {"part_018", "internal"}
    /\ hc \in [Targets -> {NewHealthchecker(b) : b \in BOOLEAN}]
    /\ client = EmptyRequest
    /\ compression = [t \in Targets |-> FALSE]
    /\ cfg = [retries |-> 0, reroutes |-> 0]
    /\ InitCommon

NextHealth ==
    \/ \E t \in Targets : Start(t)
    \/ \E t \in Targets, ok \in BOOLEAN : checkAndSetBlockNumberHealth(t, ok)
    \/ \E t \in Targets, ok \in BOOLEAN : GasLeftReturns(t, ok)
    \/ \E t \in Targets : RPCHealthchecker_Taint(t)
    \/ \E t \in Targets : RPCHealthchecker_RemoveTaint(t)
    \/ \E t \in Targets : TaintTimerFires(t)
    \/ \E t \in Targets : TimePasses(t)
    \/ \E t \in Targets, tainted \in BOOLEAN : SetTaint(t, tainted)

SpecHealth == InitHealth /\ [][NextHealth]_vars

\* A removal goroutine that is due runs: time.After delivers and the
\* scheduler runs the goroutine.
SpecHealthFair == SpecHealth /\ \A t \in Targets : WF_vars(TaintTimerFires(t))

\* ------------------------------------- the rolling windows and the supervisor
\* The windows of the HealthcheckManager with the callers they have: the
\* observations of the dispatcher, Reset, and the supervisor that runs
\* checkForFailingRequests on every tick of its one-second ticker.  cfg holds
\* rollingWindowTaintEnabled and requestFailureThreshold, the threshold as
\* the two integers of a fraction.  hist keeps, for every window, the
\* observations made since it was created or last reset, whether it was ever
\* reset, and the parity of the ticks.
FailureThresholds == {[num |-> 1, den |-> WindowSize], [num |-> 9, den |-> 10]}

WindowHistory ==
    [observed |-> [t \in Targets |-> <<>>], everReset |-> [t \in Targets |-> FALSE],
     ticks |-> 0]

\* The windows do not share state; one of them is followed at a time.
QuietWindow(t) ==
    \A u \in Others(t) :
        /\ window[u] = <<>> /\ offset[u] = 0 /\ ~isTainted[u]
        /\ hist.observed[u] = <<>> /\ ~hist.everReset[u]

Forgotten(h, ts) ==
    [h EXCEPT !.observed = [t \in Targets |-> IF t \in ts THEN <<>> ELSE @[t]],
              !.everReset = [t \in Targets |-> @[t] \/ t \in ts]]

\* ObserveSuccess / ObserveFailure called by a dispatcher.
Observes(t, value) ==
    /\ draft = "main" /\ QuietWindow(t)
    /\ Len(hist.observed[t]) < MaxObservations
    /\ Observe(t, value)
    /\ hist' = [hist EXCEPT !.observed[t] = Append(@, value)]
    /\ UNCHANGED <<draft, aside, cfg, isHealthy, isTainted, pc, peer, ctx, err, upstream,
                   cancelled, response, errorsHandled, client, req, compression, hc>>

Resets(t) ==
    /\ draft = "main" /\ QuietWindow(t)
    /\ Reset(t)
    /\ hist' = Forgotten(hist, {t})
    /\ UNCHANGED <<draft, aside, cfg, isHealthy, isTainted, pc, peer, ctx, err, upstream,
                   cancelled, response, errorsHandled, client, req, compression, hc>>

\* responseSuccessRate <= h.requestFailureThreshold
SuccessRateAtOrBelow(rate, threshold) ==
    rate.num * threshold.den <= threshold.num * rate.den

\* responseSuccessRate < h.requestFailureThreshold, on a window that is not empty
SuccessRateBelow(rate, threshold) ==
    rate.num * threshold.den < threshold.num * rate.den

FailingRequests ==
    IF ~cfg.rollingWindowTaintEnabled THEN {}
    ELSE {t \in Targets : /\ HasEnoughObservations(t)
                          /\ SuccessRateBelow(Avg(t), cfg.requestFailureThreshold)}

\* One tick of runLoop: every failing target is tainted and its window reset.
checkForFailingRequests ==
    /\ draft = "main"
    /\ isTainted' = [t \in Targets |-> isTainted[t] \/ t \in FailingRequests]
    /\ ResetEach(FailingRequests)
    /\ hist' = [Forgotten(hist, FailingRequests) EXCEPT !.ticks = (@ + 1) % 2]
    /\ UNCHANGED <<draft, aside, cfg, isHealthy, pc, peer, ctx, err, upstream, cancelled,
                   response, errorsHandled, client, req, compression, hc>>

\* The taint of a target is removed, by the goroutine that Taint started or by
\* RemoveTaint.
TaintRemoved(t) ==
    /\ draft = "main"
    /\ isTainted[t]
    /\ isTainted' = [isTainted EXCEPT ![t] = FALSE]
    /\ UNCHANGED <<draft, aside, isHealthy, requestVars, hc>>

InitWindow ==
    /\ InitAside
    /\ draft = "main"
    /\ hc = NoProbes
    /\ client = EmptyRequest
    /\ compression = [t \in Targets |-> FALSE]
    /\ cfg \in [retries : {0}, reroutes : {0}, rollingWindowTaintEnabled : BOOLEAN,
                 requestFailureThreshold : FailureThresholds]
    /\ isHealthy = [t \in Targets |-> TRUE]
    /\ isTainted = [t \in Targets |-> FALSE]
    /\ window = [t \in Targets |-> <<>>]
    /\ offset = [t \in Targets |-> 0]
    /\ pc = "entry"
    /\ peer = 0
    /\ ctx = EmptyContext
    /\ err = NoError
    /\ upstream = NoResponse
    /\ cancelled = FALSE
    /\ response = NoResponse
    /\ errorsHandled = NoCounters
    /\ req = NewRequest(client)
    /\ hist = WindowHistory

NextWindow ==
    \/ \E t \in Targets, value \in {0, 1} : Observes(t, value)
    \/ \E t \in Targets : Resets(t)
    \/ checkForFailingRequests
    \/ \E t \in Targets : TaintRemoved(t)

SpecWindow == InitWindow /\ [][NextWindow]_vars

\* ---- the tick of the supervisor, call by call
\* checkForFailingRequests takes the lock of a window three times, in
\* HasEnoughObservations, in Avg and in Reset, and a dispatcher may observe
\* in between.  pc is the position of the supervisor: "ticker" while it waits
\* for a tick, "hasEnough" after HasEnoughObservations returned true for the
\* window of peer, "failing" after Avg was below the threshold.  hist.evaluated
\* is the number of observations the window had seen when Avg was read.
TickHistory == WindowHistory @@ [evaluated |-> 0]

\* if rollingWindow.HasEnoughObservations() {
TickHasEnoughObservations(t) ==
    /\ draft = "main" /\ pc = "ticker"
    /\ cfg.rollingWindowTaintEnabled
    /\ HasEnoughObservations(t)
    /\ pc' = "hasEnough"
    /\ peer' = t
    /\ UNCHANGED <<draft, cfg, isHealthy, isTainted, window, offset, ctx, err, upstream,
                   cancelled, response, errorsHandled, client, req, compression, hc, hist,
                   aside>>

\* responseSuccessRate := rollingWindow.Avg(); if responseSuccessRate < ... {
TickAvg ==
    /\ draft = "main" /\ pc = "hasEnough"
    /\ pc' = IF SuccessRateBelow(Avg(peer), cfg.requestFailureThreshold)
             THEN "failing" ELSE "ticker"
    /\ hist' = [hist EXCEPT !.evaluated = Len(hist.observed[peer])]
    /\ UNCHANGED <<draft, cfg, isHealthy, isTainted, window, offset, peer, ctx, err,
                   upstream, cancelled, response, errorsHandled, client, req, compression,
                   hc, aside>>

\* h.TaintTarget(wrapper.Name); rollingWindow.Reset()
TickTaintAndReset ==
    /\ draft = "main" /\ pc = "failing"
    /\ isTainted' = [isTainted EXCEPT ![peer] = TRUE]
    /\ Reset(peer)
    /\ hist' = Forgotten(hist, {peer})
    /\ pc' = "ticker"
    /\ UNCHANGED <<draft, cfg, isHealthy, peer, ctx, err, upstream, cancelled, response,
                   errorsHandled, client, req, compression, hc, aside>>

InitTick ==
    /\ InitAside
    /\ draft = "main"
    /\ hc = NoProbes
    /\ client = EmptyRequest
    /\ compression = [t \in Targets |-> FALSE]
    /\ cfg \in [retries : {0}, reroutes : {0}, rollingWindowTaintEnabled : BOOLEAN,
                 requestFailureThreshold : FailureThresholds]
    /\ isHealthy = [t \in Targets |-> TRUE]
    /\ isTainted = [t \in Targets |-> FALSE]
    /\ window = [t \in Targets |-> <<>>]
    /\ offset = [t \in Targets |-> 0]
    /\ pc = "ticker"
    /\ peer = 0
    /\ ctx = EmptyContext
    /\ err = NoError
    /\ upstream = NoResponse
    /\ cancelled = FALSE
    /\ response = NoResponse
    /\ errorsHandled = NoCounters
    /\ req = NewRequest(client)
    /\ hist = TickHistory

NextTick ==
    \/ \E t \in Targets, value \in {0, 1} : Observes(t, value)
    \/ \E t \in Targets : TickHasEnoughObservations(t)
    \/ TickAvg
    \/ TickTaintAndReset
    \/ \E t \in Targets : TaintRemoved(t)

SpecTick == InitTick /\ [][NextTick]_vars

\* ---- windows of every configured size
\* cfg.rollingWindowSize is HealthChecks.RollingWindowSize, 0 when the
\* configuration leaves it out.  pc is "panic" after a panic of Observe.
SizedObserve(t, value) ==
    /\ draft = "main" /\ pc # "panic"
    /\ IF ObservePanics(t, cfg.rollingWindowSize)
       THEN /\ pc' = "panic"
            /\ UNCHANGED <<window, offset>>
       ELSE /\ ObserveOfSize(t, value, cfg.rollingWindowSize)
            /\ pc' = pc
    /\ UNCHANGED <<draft, cfg, isHealthy, isTainted, peer, ctx, err, upstream, cancelled,
                   response, errorsHandled, client, req, compression, hc, hist, aside>>

SizedReset(t) ==
    /\ draft = "main" /\ pc # "panic"
    /\ Reset(t)
    /\ UNCHANGED <<draft, cfg, isHealthy, isTainted, pc, peer, ctx, err, upstream,
                   cancelled, response, errorsHandled, client, req, compression, hc, hist,
                   aside>>

InitSizes ==
    /\ InitAside
    /\ draft = "main"
    /\ hc = NoProbes
    /\ client = EmptyRequest
    /\ compression = [t \in Targets |-> FALSE]
    /\ cfg \in [retries : {0}, reroutes : {0}, rollingWindowSize : 0 .. WindowSize + 1]
    /\ isHealthy = [t \in Targets |-> TRUE]
    /\ isTainted = [t \in Targets |-> FALSE]
    /\ window = [t \in Targets |-> <<>>]
    /\ offset = [t \in Targets |-> 0]
    /\ pc = "entry"
    /\ peer = 0
    /\ ctx = EmptyContext
    /\ err = NoError
    /\ upstream = NoResponse
    /\ cancelled = FALSE
    /\ response = NoResponse
    /\ errorsHandled = NoCounters
    /\ req = NewRequest(client)
    /\ hist = WindowHistory

NextSizes ==
    \/ \E t \in Targets, value \in {0, 1} : SizedObserve(t, value)
    \/ \E t \in Targets : SizedReset(t)

SpecSizes == InitSizes /\ [][NextSizes]_vars

\* ------------------------------------------- the supervisor and its probers
\* HealthCheckManager.Start and Stop of package internal/proxy with the loop
\* of every health checker.  pc is the position of the supervisor: "new"
\* before Start, "runLoop" in its loop, "returned" after it.  cancelled is the
\* cancellation of the context that Start was given.  hc[t] has, besides the
\* fields of the health checker, the position of its loop ("none" before the
\* goroutine runs, "select" in the select statement, "exited" after return)
\* and whether a tick waits in the channel of its ticker.  hist tells whether
\* Stop was called.
NewProber == NewHealthchecker(FALSE) @@ [loop |-> "none", tick |-> FALSE]

SupervisorHistory == [stopCalled |-> FALSE]

\* HealthCheckManager.Start: go hc.Start(c) for every health checker, then runLoop.
HealthCheckManager_Start ==
    /\ draft = "internal" /\ pc = "new"
    /\ pc' = "runLoop"
    /\ hc' = [t \in Targets |-> [hc[t] EXCEPT !.loop = "started"]]
    /\ UNCHANGED <<draft, aside, cfg, isHealthy, isTainted, window, offset, peer, ctx, err,
                   upstream, cancelled, response, errorsHandled, client, req,
                   compression, hist>>

\* RPCHealthchecker.Start up to the select statement: one cycle at once.
RPCHealthchecker_Start(t) ==
    /\ draft = "internal" /\ hc[t].loop = "started"
    /\ hc' = [hc EXCEPT ![t] = [CheckAndSetHealth(@) EXCEPT !.loop = "select"]]
    /\ UNCHANGED <<draft, aside, cfg, isHealthy, isTainted, window, offset, pc, peer, ctx, err,
                   upstream, cancelled, response, errorsHandled, client, req,
                   compression, hist>>

\* The ticker of the loop sends a tick; its channel holds one.
TickerFires(t) ==
    /\ draft = "internal" /\ hc[t].loop = "select" /\ ~hc[t].tick
    /\ hc' = [hc EXCEPT ![t].tick = TRUE]
    /\ UNCHANGED <<draft, aside, cfg, isHealthy, isTainted, window, offset, pc, peer, ctx, err,
                   upstream, cancelled, response, errorsHandled, client, req,
                   compression, hist>>

\* case <-ticker.C: the select statement may take it whether or not
\* ctx.Done() is ready as well.
SelectTick(t) ==
    /\ draft = "internal" /\ hc[t].loop = "select" /\ hc[t].tick
    /\ hc[t].gasLeft < MaxOutstanding /\ hc[t].blockNumber < MaxOutstanding
    /\ hc' = [hc EXCEPT ![t] = [CheckAndSetHealth(@) EXCEPT !.tick = FALSE]]
    /\ UNCHANGED <<draft, aside, cfg, isHealthy, isTainted, window, offset, pc, peer, ctx, err,
                   upstream, cancelled, response, errorsHandled, client, req,
                   compression, hist>>

\* case <-ctx.Done(): return, and the deferred ticker.Stop().
SelectDone(t) ==
    /\ draft = "internal" /\ hc[t].loop = "select" /\ cancelled
    /\ hc' = [hc EXCEPT ![t].loop = "exited", ![t].tick = FALSE]
    /\ UNCHANGED <<draft, aside, cfg, isHealthy, isTainted, window, offset, pc, peer, ctx, err,
                   upstream, cancelled, response, errorsHandled, client, req,
                   compression, hist>>

\* The two probes of a cycle return; the gas-left probe sets isHealthy.
CycleReturns(t, ok) ==
    /\ draft = "internal" /\ hc[t].gasLeft > 0 /\ hc[t].blockNumber > 0
    /\ hc' = [hc EXCEPT ![t].gasLeft = @ - 1, ![t].blockNumber = @ - 1,
                        ![t].lastGasLeft = IF ok THEN "ok" ELSE "failed"]
    /\ isHealthy' = [isHealthy EXCEPT ![t] = ok]
    /\ UNCHANGED <<draft, aside, cfg, isTainted, window, offset, pc, peer, ctx, err,
                   upstream, cancelled, response, errorsHandled, client, req,
                   compression, hist>>

\* RPCHealthchecker.Stop: return nil.
RPCHealthchecker_Stop(h) == h

\* HealthCheckManager.Stop: hc.Stop(c) for every health checker.
HealthCheckManager_Stop ==
    /\ draft = "internal" /\ pc # "new"
    /\ hc' = [t \in Targets |-> RPCHealthchecker_Stop(hc[t])]
    /\ hist' = [hist EXCEPT !.stopCalled = TRUE]
    /\ UNCHANGED <<draft, aside, cfg, isHealthy, isTainted, window, offset, pc, peer, ctx, err,
                   upstream, cancelled, response, errorsHandled, client, req,
                   compression>>

\* The context given to Start is cancelled.
ContextCancelled ==
    /\ draft = "internal" /\ pc # "new" /\ ~cancelled
    /\ cancelled' = TRUE
    /\ UNCHANGED <<draft, aside, cfg, isHealthy, isTainted, window, offset, pc, peer, ctx, err,
                   upstream, response, errorsHandled, client, req, compression, hc, hist>>

\* runLoop: case <-c.Done(): return nil.
runLoopReturns ==
    /\ draft = "internal" /\ pc = "runLoop" /\ cancelled
    /\ pc' = "returned"
    /\ UNCHANGED <<draft, aside, cfg, isHealthy, isTainted, window, offset, peer, ctx, err,
                   upstream, cancelled, response, errorsHandled, client, req,
                   compression, hc, hist>>

InitSupervisor ==
    /\ InitAside
    /\ draft = "internal"
    /\ hc = [t \in Targets |-> NewProber]
    /\ client = EmptyRequest
    /\ compression = [t \in Targets |-> FALSE]
    /\ cfg = [retries |-> 0, reroutes |-> 0]
    /\ isHealthy = [t \in Targets |-> TRUE]
    /\ isTainted = [t \in Targets |-> FALSE]
    /\ window = [t \in Targets |-> <<>>]
    /\ offset = [t \in Targets |-> 0]
    /\ pc = "new"
    /\ peer = 0
    /\ ctx = EmptyContext
    /\ err = NoError
    /\ upstream = NoResponse
    /\ cancelled = FALSE
    /\ response = NoResponse
    /\ errorsHandled = NoCounters
    /\ req = NewRequest(client)
    /\ hist = SupervisorHistory

NextSupervisor ==
    \/ HealthCheckManager_Start
    \/ \E t \in Targets : RPCHealthchecker_Start(t)
    \/ \E t \in Targets : TickerFires(t)
    \/ \E t \in Targets : SelectTick(t)
    \/ \E t \in Targets : SelectDone(t)
    \/ \E t \in Targets, ok \in BOOLEAN : CycleReturns(t, ok)
    \/ HealthCheckManager_Stop
    \/ ContextCancelled
    \/ runLoopReturns

SpecSupervisor == InitSupervisor /\ [][NextSupervisor]_vars

\* ------------------------------------------------------ WeightedRoundRobin
\* wrr is WeightedRoundRobin.items, size being its length; an item is named
\* by its index, and 0 is the nil that Next returns for want of items.  hist
\* keeps the latest results of Next, as many as the sum of the weights.
RECURSIVE SumOfWeights(_)
SumOfWeights(items) ==
    IF items = <<>> THEN 0 ELSE Head(items).Weight + SumOfWeights(Tail(items))

RECURSIVE TotalEffective(_)
TotalEffective(items) ==
    IF items = <<>> THEN 0 ELSE Head(items).EffectiveWeight + TotalEffective(Tail(items))

\* The loop of doSmoothWeight: every item gains its effective weight, and the
\* best one is the first of those with the greatest current weight.
Gained(items) ==
    [i \in 1 .. Len(items) |->
        [items[i] EXCEPT !.CurrentWeight = @ + items[i].EffectiveWeight,
                         !.EffectiveWeight = IF @ < items[i].Weight THEN @ + 1 ELSE @]]

Best(items) ==
    CHOOSE i \in 1 .. Len(items) :
        /\ \A j \in 1 .. Len(items) : items[j].CurrentWeight <= items[i].CurrentWeight
        /\ \A j \in 1 .. i - 1 : items[j].CurrentWeight < items[i].CurrentWeight

doSmoothWeight(items) ==
    LET best == Best(Gained(items)) IN
    [items |-> [Gained(items) EXCEPT ![best].CurrentWeight = @ - TotalEffective(items)],
     best |-> best]

next(items) ==
    IF Len(items) = 0 THEN [items |-> items, best |-> 0]
    ELSE IF Len(items) = 1 THEN [items |-> items, best |-> 1]
    ELSE doSmoothWeight(items)

RoundRobinHistory == [returned |-> <<>>]

LatestOf(s, n) == IF Len(s) <= n THEN s ELSE SubSeq(s, Len(s) - n + 1, Len(s))

\* Add, while the balancer is built.
WeightedRoundRobin_Add(weight) ==
    /\ draft = "pkg" /\ hist.returned = <<>>
    /\ Len(wrr) < MaxItems
    /\ wrr' = Append(wrr, [Item |-> Len(wrr) + 1, Weight |-> weight, CurrentWeight |-> 0,
                           EffectiveWeight |-> weight])
    /\ UNCHANGED <<draft, cfg, isHealthy, isTainted, window, offset, pc, peer, ctx, err,
                   upstream, cancelled, response, errorsHandled, client, req, compression,
                   hc, hist, gauges, rt>>

WeightedRoundRobin_Next ==
    /\ draft = "pkg"
    /\ wrr' = next(wrr).items
    /\ hist' = [hist EXCEPT !.returned =
                    LatestOf(Append(@, next(wrr).best),
                             IF SumOfWeights(wrr) > 0 THEN SumOfWeights(wrr) ELSE 1)]
    /\ UNCHANGED <<draft, cfg, isHealthy, isTainted, window, offset, pc, peer, ctx, err,
                   upstream, cancelled, response, errorsHandled, client, req, compression,
                   hc, gauges, rt>>

InitRoundRobin ==
    /\ InitAside
    /\ draft = "pkg"
    /\ hc = NoProbes
    /\ client = EmptyRequest
    /\ compression = [t \in Targets |-> FALSE]
    /\ cfg = [retries |-> 0, reroutes |-> 0]
    /\ isHealthy = [t \in Targets |-> TRUE]
    /\ isTainted = [t \in Targets |-> FALSE]
    /\ window = [t \in Targets |-> <<>>]
    /\ offset = [t \in Targets |-> 0]
    /\ pc = "entry"
    /\ peer = 0
    /\ ctx = EmptyContext
    /\ err = NoError
    /\ upstream = NoResponse
    /\ cancelled = FALSE
    /\ response = NoResponse
    /\ errorsHandled = NoCounters
    /\ req = NewRequest(client)
    /\ hist = RoundRobinHistory

NextRoundRobin ==
    \/ \E weight \in 0 .. MaxWeight : WeightedRoundRobin_Add(weight)
    \/ WeightedRoundRobin_Next

SpecRoundRobin == InitRoundRobin /\ [][NextRoundRobin]_vars

\* --------------------------------------------------------- status gauges
\* The gauges that the health checkers and the supervisor publish.  Draft
\* "main" is the HealthcheckManager of package main, which hands its gauges
\* to the health checkers with SetMetric; draft "internal" is the
\* HealthCheckManager of package internal/proxy, which sets no metric on the
\* health checkers and publishes on every tick of runLoop.  hc[t] holds here
\* the fields blockNumber and gasLimit of the health checker, and hist the
\* values that the probes of each target have observed.
BlockNumbers == {1, 2}

GasLimits == {3, 4}

GaugedHealthchecker == [blockNumber |-> 0, gasLimit |-> 0]

GaugeHistory == [blockNumbers |-> [t \in Targets |-> {}], gasLimits |-> [t \in Targets |-> {}]]

\* The gauge that SetMetric(MetricBlockNumber, ...) gave the health checker.
MetricBlockNumber == IF draft = "main" THEN "blockNumber" ELSE "nil"

\* The gauge that SetMetric(MetricGasLimit, ...) gave the health checker.
MetricGasLimit == IF draft = "main" THEN "blockNumber" ELSE "nil"

\* metric.WithLabelValues(name).Set(value), if the metric is not nil.
SetGauge(g, metric, value) ==
    IF metric = "nil" THEN g ELSE [g EXCEPT ![metric] = value]

\* checkAndSetBlockNumberHealth with a call that succeeded; one that failed
\* returns before anything is set.
BlockNumberProbed(t, n) ==
    /\ draft \in {"main", "internal"}
    /\ gauges' = [gauges EXCEPT ![t] = SetGauge(@, MetricBlockNumber, n)]
    /\ hc' = [hc EXCEPT ![t].blockNumber = n]
    /\ hist' = [hist EXCEPT !.blockNumbers[t] = @ \cup {n}]
    /\ UNCHANGED <<draft, cfg, isHealthy, isTainted, window, offset, pc, peer, ctx, err,
                   upstream, cancelled, response, errorsHandled, client, req, compression,
                   wrr, rt>>

\* checkAndSetGasLeftHealth: performGasLeftCall returns 0 with an error.
GasLimitProbed(t, ok, n) ==
    /\ draft \in {"main", "internal"}
    /\ gauges' = [gauges EXCEPT ![t] = SetGauge(@, MetricGasLimit, IF ok THEN n ELSE 0)]
    /\ hc' = IF ok THEN [hc EXCEPT ![t].gasLimit = n] ELSE hc
    /\ isHealthy' = [isHealthy EXCEPT ![t] = ok]
    /\ hist' = IF ok THEN [hist EXCEPT !.gasLimits[t] = @ \cup {n}] ELSE hist
    /\ UNCHANGED <<draft, cfg, isTainted, window, offset, pc, peer, ctx, err,
                   upstream, cancelled, response, errorsHandled, client, req, compression,
                   wrr, rt>>

Bit(b) == IF b THEN 1 ELSE 0

\* reportStatusMetrics, on every tick of runLoop.
reportStatusMetrics ==
    /\ draft \in {"main", "internal"}
    /\ gauges' = [t \in Targets |->
                     IF draft = "main"
                     THEN [gauges[t] EXCEPT !.healthy = Bit(IsHealthy(t)),
                                            !.tainted = Bit(isTainted[t])]
                     ELSE [gauges[t] EXCEPT !.healthy = Bit(IsHealthy(t)),
                                            !.gasLimit = hc[t].blockNumber,
                                            !.blockNumber = hc[t].blockNumber]]
    /\ UNCHANGED <<draft, cfg, isHealthy, isTainted, window, offset, pc, peer, ctx, err,
                   upstream, cancelled, response, errorsHandled, client, req, compression,
                   hc, hist, wrr, rt>>

InitGauges ==
    /\ InitAside
    /\ draft \in {"main", "internal"}
    /\ hc = [t \in Targets |-> GaugedHealthchecker]
    /\ client = EmptyRequest
    /\ compression = [t \in Targets |-> FALSE]
    /\ cfg = [retries |-> 0, reroutes |-> 0]
    /\ isHealthy = [t \in Targets |-> TRUE]
    /\ isTainted = [t \in Targets |-> FALSE]
    /\ window = [t \in Targets |-> <<>>]
    /\ offset = [t \in Targets |-> 0]
    /\ pc = "runLoop"
    /\ peer = 0
    /\ ctx = EmptyContext
    /\ err = NoError
    /\ upstream = NoResponse
    /\ cancelled = FALSE
    /\ response = NoResponse
    /\ errorsHandled = NoCounters
    /\ req = NewRequest(client)
    /\ hist = GaugeHistory

NextGauges ==
    \/ \E t \in Targets, n \in BlockNumbers : BlockNumberProbed(t, n)
    \/ \E t \in Targets, ok \in BOOLEAN, n \in GasLimits : GasLimitProbed(t, ok, n)
    \/ reportStatusMetrics

SpecGauges == InitGauges /\ [][NextGauges]_vars

\* ---- probe cycles, one after another
\* Every call of CheckAndSetHealth is a probe cycle, numbered in the order of
\* the calls.  hc[t].started is the number of cycles started, hc[t].gasLeft and
\* hc[t].blockNumbers are the cycles whose goroutine has not returned yet.
\* hist.wrote[t] is the cycle that set isHealthy last, hist.overwritten[t]
\* tells that a cycle set isHealthy after a later one had.
CycledHealthchecker == [started |-> 0, gasLeft |-> {}, blockNumbers |-> {}, blockNumber |-> 0]

CycleHistory == [wrote |-> [t \in Targets |-> 0], overwritten |-> [t \in Targets |-> FALSE]]

\* Start and every tick after it: go checkAndSetBlockNumberHealth(),
\* go checkAndSetGasLeftHealth().  The probes of a cycle end within Timeout;
\* they outlive the Interval when the Timeout is the longer one.
CycleStarts(t) ==
    /\ draft = "internal"
    /\ hc[t].started < MaxCycles
    /\ cfg.longTimeout \/ (hc[t].gasLeft = {} /\ hc[t].blockNumbers = {})
    /\ hc' = [hc EXCEPT ![t].started = @ + 1,
                        ![t].gasLeft = @ \cup {hc[t].started + 1},
                        ![t].blockNumbers = @ \cup {hc[t].started + 1}]
    /\ UNCHANGED <<draft, cfg, isHealthy, isTainted, window, offset, pc, peer, ctx, err,
                   upstream, cancelled, response, errorsHandled, client, req, compression,
                   hist, aside>>

\* checkAndSetBlockNumberHealth of cycle k returns.
BlockNumberOfCycle(t, k, ok, n) ==
    /\ draft = "internal"
    /\ k \in hc[t].blockNumbers
    /\ hc' = [hc EXCEPT ![t].blockNumbers = @ \ {k},
                        ![t].blockNumber = IF ok THEN n ELSE @]
    /\ UNCHANGED <<draft, cfg, isHealthy, isTainted, window, offset, pc, peer, ctx, err,
                   upstream, cancelled, response, errorsHandled, client, req, compression,
                   hist, aside>>

\* checkAndSetGasLeftHealth of cycle k returns.
GasLeftOfCycle(t, k, ok) ==
    /\ draft = "internal"
    /\ k \in hc[t].gasLeft
    /\ hc' = [hc EXCEPT ![t].gasLeft = @ \ {k}]
    /\ isHealthy' = [isHealthy EXCEPT ![t] = ok]
    /\ hist' = [hist EXCEPT !.wrote[t] = k,
                            !.overwritten[t] = @ \/ k < hist.wrote[t]]
    /\ UNCHANGED <<draft, cfg, isTainted, window, offset, pc, peer, ctx, err,
                   upstream, cancelled, response, errorsHandled, client, req, compression,
                   aside>>

InitCycles ==
    /\ InitAside
    /\ draft = "internal"
    /\ hc = [t \in Targets |-> CycledHealthchecker]
    /\ client = EmptyRequest
    /\ compression = [t \in Targets |-> FALSE]
    /\ cfg \in [retries : {0}, reroutes : {0}, longTimeout : BOOLEAN]
    /\ isHealthy = [t \in Targets |-> TRUE]
    /\ isTainted = [t \in Targets |-> FALSE]
    /\ window = [t \in Targets |-> <<>>]
    /\ offset = [t \in Targets |-> 0]
    /\ pc = "Start"
    /\ peer = 0
    /\ ctx = EmptyContext
    /\ err = NoError
    /\ upstream = NoResponse
    /\ cancelled = FALSE
    /\ response = NoResponse
    /\ errorsHandled = NoCounters
    /\ req = NewRequest(client)
    /\ hist = CycleHistory

NextCycles ==
    \/ \E t \in Targets : CycleStarts(t)
    \/ \E t \in Targets, k \in 1 .. MaxCycles, ok \in BOOLEAN, n \in BlockNumbers :
          BlockNumberOfCycle(t, k, ok, n)
    \/ \E t \in Targets, k \in 1 .. MaxCycles, ok \in BOOLEAN :
          GasLeftOfCycle(t, k, ok)

SpecCycles == InitCycles /\ [][NextCycles]_vars

\* ---- the retrying transport of a target's reverse proxy
\* rt[t] follows one call of RetryRoundTrip.RoundTrip on the proxy of target t:
\* pc is "idle" before the call, "select" at the head of the loop, "returned"
\* after a return and "panic" after a panic; retries is the local counter,
\* trips the calls of Next.RoundTrip, done tells that the request's context
\* is cancelled, status is the last upstream outcome.
RoundTripOutcomes == {"200", "non200", "error"}

NewRoundTrip == NoRoundTrip @@ [done |-> FALSE, status |-> "none", result |-> "none"]

\* RetryOn given by NewReverseProxy: resp.StatusCode != 200.
RetryOn(status) == status # "200"

\* The reverse proxy calls proxy.Transport.RoundTrip(r).
RoundTripCalled(t) ==
    /\ draft = "pkg"
    /\ rt[t].pc = "idle"
    /\ rt' = [rt EXCEPT ![t].pc = "select"]
    /\ UNCHANGED <<draft, cfg, isHealthy, isTainted, window, offset, pc, peer, ctx, err,
                   upstream, cancelled, response, errorsHandled, client, req, compression,
                   hc, hist, wrr, gauges>>

\* The client goes away, or the request's deadline passes.
RequestContextDone(t) ==
    /\ draft = "pkg"
    /\ rt[t].pc = "select"
    /\ ~rt[t].done
    /\ rt' = [rt EXCEPT ![t].done = TRUE]
    /\ UNCHANGED <<draft, cfg, isHealthy, isTainted, window, offset, pc, peer, ctx, err,
                   upstream, cancelled, response, errorsHandled, client, req, compression,
                   hc, hist, wrr, gauges>>

\* case <-r.Context().Done(): return nil, r.Context().Err()
SelectContextDone(t) ==
    /\ draft = "pkg"
    /\ rt[t].pc = "select"
    /\ rt[t].done
    /\ rt' = [rt EXCEPT ![t].pc = "returned", ![t].result = "context error"]
    /\ UNCHANGED <<draft, cfg, isHealthy, isTainted, window, offset, pc, peer, ctx, err,
                   upstream, cancelled, response, errorsHandled, client, req, compression,
                   hc, hist, wrr, gauges>>

\* default: one pass of the loop body.  On a transport error resp is nil and
\* defer resp.Body.Close() dereferences it.  The case of time.After goes back
\* to the select and changes nothing.
SelectDefault(t, outcome) ==
    /\ draft = "pkg"
    /\ rt[t].pc = "select"
    /\ rt[t].trips < MaxRoundTrips
    /\ rt' = [rt EXCEPT
                ![t].trips = @ + 1,
                ![t].retries = @ + 1,
                ![t].status = outcome,
                ![t].pc = IF outcome = "error" THEN "panic"
                          ELSE IF RetryOn(outcome) THEN "select"
                          ELSE "returned",
                ![t].result = IF outcome = "error" THEN "none"
                              ELSE IF RetryOn(outcome) THEN @
                              ELSE "response"]
    /\ UNCHANGED <<draft, cfg, isHealthy, isTainted, window, offset, pc, peer, ctx, err,
                   upstream, cancelled, response, errorsHandled, client, req, compression,
                   hc, hist, wrr, gauges>>

InitRoundTrip ==
    /\ wrr = NewWeightedRoundRobin
    /\ gauges = NoGauges
    /\ rt = [t \in Targets |-> NewRoundTrip]
    /\ draft = "pkg"
    /\ hc = NoProbes
    /\ client = EmptyRequest
    /\ compression = [t \in Targets |-> FALSE]
    /\ cfg \in [retries : 1 .. MaxRetries + 1, reroutes : {0}]
    /\ isHealthy = [t \in Targets |-> TRUE]
    /\ isTainted = [t \in Targets |-> FALSE]
    /\ window = [t \in Targets |-> <<>>]
    /\ offset = [t \in Targets |-> 0]
    /\ pc = "serving"
    /\ peer = 0
    /\ ctx = EmptyContext
    /\ err = NoError
    /\ upstream = NoResponse
    /\ cancelled = FALSE
    /\ response = NoResponse
    /\ errorsHandled = NoCounters
    /\ req = NewRequest(client)
    /\ hist = <<>>

NextRoundTrip ==
    \/ \E t \in Targets : RoundTripCalled(t)
    \/ \E t \in Targets : RequestContextDone(t)
    \/ \E t \in Targets : SelectContextDone(t)
    \/ \E t \in Targets, outcome \in RoundTripOutcomes : SelectDefault(t, outcome)

SpecRoundTrip == InitRoundTrip /\ [][NextRoundTrip]_vars

\* ================================================================ claims
Attempts == hist.attempts

LastClass == IF Len(Attempts) = 0 THEN "none" ELSE Attempts[Len(Attempts)].class

Selected == {i \in 1 .. Len(Attempts) : Attempts[i].selected}

\* The request ended with the response of an upstream passed to the client.
PassedThrough == pc = "done" /\ LastClass = "success"

\* C1: with per-target retries set to 0, no target is forwarded the same
\* request twice, whatever the health vector does and however upstreams fail.
C1_NoRepeatWithinRequest ==
    cfg.retries = 0 =>
        \A i, j \in 1 .. Len(Attempts) : i # j => Attempts[i].target # Attempts[j].target

\* C2: every forward goes to a target that IsHealthy reported healthy when the
\* selection chose it.
C2_ForwardsOnlyToHealthy ==
    \A i \in 1 .. Len(Attempts) : Attempts[i].healthy

\* C3: while the health vector does not change during the request, the targets
\* chosen have strictly increasing index and each is the lowest-index target
\* that is healthy and not yet visited.
C3_AscendingLowestFirst ==
    hist.healthChanges = 0 =>
        /\ \A i, j \in Selected : i < j => Attempts[i].target < Attempts[j].target
        /\ \A i \in Selected : Attempts[i].lowest

\* C4: a request that arrives while no target is healthy is answered 503 and
\* is forwarded to no upstream.
C4_NoHealthyTargetMeans503 ==
    hist.noneHealthyAtEntry =>
        /\ Attempts = <<>>
        /\ pc = "done" => response.status = StatusServiceUnavailable

\* C5: unless the client cancels, a request ends without an upstream's
\* successful response only after every target that stayed healthy during the
\* request was tried and none of them answered with a status other than 429/5xx.
C5_FailoverUntilSuccessOrExhaustion ==
    (pc = "done" /\ ~cancelled /\ ~PassedThrough) =>
        /\ ~hist.goodAnswer
        /\ \A t \in Targets \ hist.everUnhealthy : t \in SeqRange(Sent(hist))

\* C7: an upstream response is classified a failure exactly when its status is
\* 429 or at least 500.
C7_FailureIffStatus429Or5xx ==
    /\ (pc = "errorHandler" /\ err.kind = "status code") => FailingStatus(err.code)
    /\ PassedThrough => ~FailingStatus(upstream.status)

\* What the dispatcher itself does next; the upstream's answer is not among
\* these steps, the expiry of the upstream timeout is.
DispatcherStep == HandleRequest \/ UpstreamTimeout \/ ErrorHandler

C9_CancelledAttemptNotObserved ==
    (pc = "done" /\ cancelled /\ hist.sentAtCancel = Len(Attempts)) =>
        <<window[peer], offset[peer]>> = hist.windowBefore

\* A request cancelled during a retry, after earlier failures were observed.
C9_Witness ==
    /\ pc = "done"
    /\ cancelled
    /\ hist.sentAtCancel >= 2
    /\ Len(window[peer]) >= 1

\* C8: when an attempt is classified a success, the client receives the
\* status, every header value and the body that the upstream returned.
C8_SuccessPassedVerbatim ==
    PassedThrough => response = upstream

\* C10: after the client cancels, the attempt in flight is aborted, no further
\* attempt is made on any target, and nothing more is written to the client.
C10_CancelStopsTraversal ==
    cancelled =>
        /\ Len(Attempts) = hist.sentAtCancel
        /\ Attempts[hist.sentAtCancel].class \in {"inflight", "canceled"}
        /\ response = hist.responseAtCancel

\* The attempts from the choice of a target up to the next choice.
NextSelected(i) == {j \in Selected : j > i /\ \A k \in Selected : ~(i < k /\ k < j)}

LastSelected == CHOOSE i \in Selected : \A k \in Selected : k <= i

\* C11: a target that keeps failing is sent the request exactly R+1 times
\* before the dispatcher moves to another target, and the retry count starts
\* at 0 again on the target chosen next.
C11_RetriesPerTarget ==
    /\ \A i \in Selected : \A j \in NextSelected(i) :
          /\ j - i = cfg.retries + 1
          /\ \A k \in i .. (j - 1) : Attempts[k].class = "fail" /\ Attempts[k].target = Attempts[i].target
    /\ (pc = "inflight" /\ Attempts # <<>>) => ctx.retries = Len(Attempts) - LastSelected
    /\ Attempts # <<>> => Len(Attempts) - LastSelected <= cfg.retries

\* A failing target was retried and the next target is on its first attempt.
C11_Witness ==
    /\ cfg.retries = 1
    /\ pc = "inflight"
    /\ Len(Attempts) = 3
    /\ Attempts[3].selected
    /\ Attempts[3].target # Attempts[1].target
    /\ ctx.retries = 0

\* C12: with F reroutes and R retries per target allowed, a request is
\* forwarded to at most F+1 targets and retried at most (1+F)*R times; when
\* that budget is used up the client gets 503, even if a healthy target is left.
C12_RerouteBudget ==
    /\ Cardinality(Selected) <= cfg.reroutes + 1
    /\ Cardinality(SeqRange(Sent(hist))) <= cfg.reroutes + 1
    /\ Len(Attempts) - Cardinality(Selected) <= (1 + cfg.reroutes) * cfg.retries
    /\ (pc = "done" /\ ~cancelled /\ ~PassedThrough) =>
           /\ response = ServiceNotAvailable
           /\ Cardinality(Selected) = cfg.reroutes + 1
           /\ Len(Attempts) = (cfg.reroutes + 1) * (cfg.retries + 1)

\* No reroute allowed: the first target failed, the client got 503 and the
\* second target, healthy, was never contacted.
C12_Witness ==
    /\ cfg.reroutes = 0
    /\ pc = "done"
    /\ response = ServiceNotAvailable
    /\ SeqRange(Sent(hist)) = {0}
    /\ IsHealthy(1)

\* The bytes of the client's request body, decompressed if it came gzipped.
ClientData == IF client.encoding = "gzip" THEN Gunzip(client.body) ELSE client.body

\* The outgoing request r carries the client's data, as gzip or plain.
CarriesClientData(r) ==
    IF r.contentEncoding = "gzip"
    THEN IsGzip(r.body) /\ Gunzip(r.body) = ClientData
    ELSE r.body = ClientData

\* C13: on every attempt (first send, retry, reroute) the body handed to the
\* upstream is, after decompression, the body the client sent, after
\* decompression; it is never empty or cut short by an earlier failed attempt.
C13_BodyFidelity ==
    \A i \in 1 .. Len(Attempts) : CarriesClientData(Attempts[i].sent)

\* C14: on every attempt a target with compression is sent the client's data
\* gzipped, with Content-Encoding gzip, and a target without compression is
\* sent the data plain, with no Content-Encoding.
C14_EncodingPerTarget ==
    \A i \in 1 .. Len(Attempts) :
        IF compression[Attempts[i].target]
        THEN /\ Attempts[i].sent.contentEncoding = "gzip"
             /\ Attempts[i].sent.body = Gzip(ClientData)
        ELSE /\ Attempts[i].sent.contentEncoding = ""
             /\ Attempts[i].sent.body = ClientData

\* C15: on every outgoing request the Content-Length is the number of body
\* bytes given to the transport.
C15_ContentLengthMatchesBody ==
    \A i \in 1 .. Len(Attempts) :
        Attempts[i].sent.contentLength = Len(Attempts[i].sent.body)

\* C16: when reading the client's request body fails, no upstream is
\* contacted, nothing but the 503 answer is written to the response, and the
\* finished request has answered 503 Service Unavailable.
C16_ReadFailureAnswers503 ==
    hist.readFailed =>
        /\ Len(Attempts) = 0
        /\ response \in {NoResponse, errServiceUnavailable(NoResponse)}
        /\ pc = "done" => response = errServiceUnavailable(NoResponse)

\* C17: in every state and for every target, IsHealthy is true exactly when
\* the target is live (isHealthy) and not tainted; so a live target that gets
\* tainted is unhealthy, and healthy again once the taint is removed.
C17_HealthyIffLiveAndUntainted ==
    \A t \in Targets : IsHealthy(t) <=> (isHealthy[t] /\ ~isTainted[t])

\* A live target that was tainted, untainted and tainted again.
C17_Witness ==
    \E t \in Targets : isHealthy[t] /\ isTainted[t] /\ hc[t].removed /\ ~IsHealthy(t)

\* C18: a target is live before any gas-left probe has returned and afterwards
\* exactly when the last gas-left probe that returned succeeded; the
\* block-number probe has no say in it.
C18_LiveIsLastGasLeftOutcome ==
    \A t \in Targets : isHealthy[t] <=> hc[t].lastGasLeft # "failed"

\* C19: per target at most one probe cycle is outstanding: never two gas-left
\* probes and never two block-number probes that have not returned.
C19_AtMostOneCycleOutstanding ==
    \A t \in Targets : hc[t].gasLeft <= 1 /\ hc[t].blockNumber <= 1

\* The k-th wait time of a row of taints: 30 s doubled k - 1 times, at most 10 min.
BackOff(k) == Min(initialTaintWaitTime * 2 ^ (k - 1), maxTaintWaitTime)

\* C20: a taint that takes effect sets the wait time to twice the previous
\* one, at most 10 min, when it comes within 5 min of the last removal, and to
\* 30 s otherwise (also on a fresh health checker); the k-th taint of a row of
\* such taints therefore waits 30 s, 60 s, 120 s, 240 s, 480 s, 600 s, 600 s, ...
C20_TaintBackOff ==
    [][\A t \in Targets :
          (draft = "internal" /\ ~isTainted[t] /\ isTainted'[t]) =>
              /\ hc'[t].currentTaintWaitTime =
                     IF hc[t].removed /\ hc[t].elapsed <= resetTaintWaitTimeAfterDuration
                     THEN Min(2 * hc[t].currentTaintWaitTime, maxTaintWaitTime)
                     ELSE initialTaintWaitTime
              /\ hc'[t].currentTaintWaitTime = BackOff(hc'[t].streak)]_vars

\* The wait time has reached the cap, twice in a row.
C20_Witness ==
    \E t \in Targets :
        /\ isTainted[t]
        /\ hc[t].streak = MaxStreak
        /\ hc[t].currentTaintWaitTime = maxTaintWaitTime

\* C21: a call of Taint on a target that is tainted leaves it tainted, leaves
\* the wait time and the time of the last removal as they are and starts no
\* further removal goroutine.
C21_TaintOnTaintedChangesNothing ==
    [][\A t \in Targets :
          hc'[t].retaints # hc[t].retaints =>
              /\ isTainted'[t] /\ isHealthy'[t] = isHealthy[t]
              /\ hc'[t] = [hc[t] EXCEPT !.retaints = hc'[t].retaints]]_vars

\* Taint was called on a tainted target whose wait time had grown before.
C21_Witness ==
    \E t \in Targets :
        isTainted[t] /\ hc[t].retaints = 1 /\ hc[t].currentTaintWaitTime > initialTaintWaitTime

\* C22: the removal goroutine of an earlier taint never clears a later taint:
\* when a goroutine clears the taint of a target, it is the one the latest
\* taint started.
C22_StaleTimerNeverClears ==
    [][\A t \in Targets :
          (isTainted[t] /\ ~isTainted'[t] /\ hc'[t].timers < hc[t].timers) =>
              hc'[t].stale = hc[t].stale]_vars

\* C23: removing the taint a second time changes nothing: when a removal
\* goroutine becomes due on a target whose taint was removed already, the
\* target stays untainted and the time of the last removal and the wait time
\* stay what the first removal left.
C23_UntaintIdempotent ==
    [][\A t \in Targets :
          (~isTainted[t] /\ hc'[t].timers < hc[t].timers) =>
              /\ ~isTainted'[t]
              /\ hc'[t].removed = hc[t].removed
              /\ hc'[t].elapsed = hc[t].elapsed
              /\ hc'[t].currentTaintWaitTime = hc[t].currentTaintWaitTime]_vars

VisitedLists ==
    {v \in UNION {[1 .. n -> Targets] : n \in 0 .. NumTargets} :
        \A i, j \in 1 .. Len(v) : i # j => v[i] # v[j]}

\* The lowest healthy target outside visited, -1 if there is none.
LowestHealthyOutside(visited) ==
    IF \E t \in Targets : IsHealthy(t) /\ t \notin visited
    THEN CHOOSE t \in Targets : LowestCandidate(t, visited)
    ELSE NoTarget

\* C25: GetNextHealthyTargetIndexExcluding returns the lowest index that is
\* healthy and not excluded, and -1, which is no index of a target, when there
\* is none; GetNextHealthyTargetIndex does so with nothing excluded, so it
\* returns 1 for two live targets of which the first is tainted.
C25_NextHealthyIsLowestOrNone ==
    /\ \A v \in VisitedLists :
          GetNextHealthyTargetIndexExcluding(v) = LowestHealthyOutside(SeqRange(v))
    /\ GetNextHealthyTargetIndex = LowestHealthyOutside({})

\* ---- rolling windows
Least(a, b) == IF a < b THEN a ELSE b

\* The last min(Len(s), WindowSize) elements of s.
LastObserved(s) == SubSeq(s, Len(s) - Least(Len(s), WindowSize) + 1, Len(s))

RECURSIVE Total(_)
Total(s) == IF s = <<>> THEN 0 ELSE s[1] + Total(SubSeq(s, 2, Len(s)))

Occurrences(s) ==
    [v \in {0, 1} |-> Cardinality({i \in 1 .. Len(s) : s[i] = v})]

HoldsLastObserved(t) ==
    /\ Len(window[t]) = Least(Len(hist.observed[t]), WindowSize)
    /\ Occurrences(window[t]) = Occurrences(LastObserved(hist.observed[t]))
    /\ Sum(t) = Total(LastObserved(hist.observed[t]))
    /\ Avg(t) = [num |-> Total(LastObserved(hist.observed[t])),
                 den |-> Least(Len(hist.observed[t]), WindowSize)]

\* C26: after k observations on a window of size n that was never reset, the
\* window holds the last min(k, n) observations: its length is min(k, n), its
\* sum is the sum of those observations and its average is that sum over that
\* length.
C26_WindowHoldsLastObservations ==
    \A t \in Targets : ~hist.everReset[t] => HoldsLastObserved(t)

\* A window that was never reset has seen more observations than it holds
\* and has dropped a failure for a success.
C26_Witness ==
    \E t \in Targets :
        /\ ~hist.everReset[t]
        /\ Len(hist.observed[t]) = WindowSize + 2
        /\ hist.observed[t][1] = 0
        /\ Sum(t) = WindowSize

\* C27: a reset returns the window to its initial state, empty with the write
\* cursor at 0: after any history, a reset and k further observations the
\* window holds the last min(k, n) observations made since the reset, as a
\* window that was just created does.
C27_ResetWindowIsNew ==
    \A t \in Targets : hist.everReset[t] => HoldsLastObserved(t)

\* C28: HasEnoughObservations is true exactly when the window is full: false
\* while fewer than size observations were recorded since the window was
\* created or last reset, true from the size-th observation on.
C28_EnoughIffFull ==
    \A t \in Targets :
        HasEnoughObservations(t) <=> Len(hist.observed[t]) >= WindowSize

\* A window filled again after a reset, and one short of full.
C28_Witness ==
    \E t \in Targets :
        /\ hist.everReset[t]
        /\ Len(hist.observed[t]) = WindowSize + 1
        /\ HasEnoughObservations(t)

\* The supervisor tick tainted t and reset its window in this step.
TaintedAndReset(t) ==
    /\ window[t] # <<>>
    /\ window'[t] = <<>>
    /\ isTainted'[t]

\* The window of t is full and its average is strictly below the threshold.
FullAndBelowThreshold(t) ==
    /\ Len(window[t]) = WindowSize
    /\ Total(window[t]) * cfg.requestFailureThreshold.den
           < cfg.requestFailureThreshold.num * WindowSize

\* C29: on a supervisor tick a target is tainted and its window reset if and
\* only if rolling-window tainting is enabled, the window has enough
\* observations and its average is strictly below the failure threshold; an
\* average equal to the threshold does not taint, a target that is not tainted
\* by the tick keeps its window and its taint flag, and with the feature
\* disabled no step taints a target.
C29_TickTaintsIffFailing ==
    [][/\ hist'.ticks # hist.ticks =>
            \A t \in Targets :
                /\ TaintedAndReset(t) <=>
                       (cfg.rollingWindowTaintEnabled /\ FullAndBelowThreshold(t))
                /\ ~TaintedAndReset(t) =>
                       (window'[t] = window[t] /\ isTainted'[t] = isTainted[t])
       /\ ~cfg.rollingWindowTaintEnabled =>
            \A t \in Targets : ~isTainted'[t]]_vars

\* A tick has tainted a target whose window was full of failures, and the
\* window is empty after it.
C29_Witness ==
    \E t \in Targets :
        /\ cfg.rollingWindowTaintEnabled
        /\ isTainted[t]
        /\ hist.everReset[t]
        /\ window[t] = <<>>
        /\ hist.ticks = 1

\* ---- observations of the attempts
\* The attempts whose outcome the dispatcher has handled: all but a last one
\* that is still in flight or waits for the error handler.
Handled ==
    IF pc \in {"inflight", "errorHandler"} /\ Attempts # <<>>
    THEN SubSeq(Attempts, 1, Len(Attempts) - 1)
    ELSE Attempts

RECURSIVE Observations(_, _)
\* What the attempts of as on target t are to leave in its window, oldest
\* first: 1 for a success, 0 for a failure, nothing for a cancelled one.
Observations(as, t) ==
    IF as = <<>> THEN <<>>
    ELSE LET a == as[Len(as)]
             before == Observations(SubSeq(as, 1, Len(as) - 1), t)
         IN  IF a.target # t THEN before
             ELSE IF a.class = "success" THEN Append(before, 1)
             ELSE IF a.class = "fail" THEN Append(before, 0)
             ELSE before

\* The window oldest first: a full window starts at the write cursor.
OldestFirst(t) ==
    IF Len(window[t]) < WindowSize THEN window[t]
    ELSE SubSeq(window[t], offset[t] + 1, Len(window[t])) \o SubSeq(window[t], 1, offset[t])

\* C30: every upstream attempt that completes without client cancellation
\* adds one observation to the window of the attempted target and to no other
\* window, 1 for a success and 0 for a failure: the window of every target
\* holds the latest outcomes of the attempts made on it, and nothing else.
C30_OneObservationPerAttempt ==
    \A t \in Targets : OldestFirst(t) = LastObserved(Observations(Handled, t))

\* ---- the counters of handled errors
\* The request was answered 503 by the dispatcher after its body was read,
\* with the client still there and no attempt that succeeded.
EndedIn503 ==
    /\ pc = "done"
    /\ response.status = StatusServiceUnavailable
    /\ ~hist.readFailed
    /\ ~cancelled
    /\ \A i \in 1 .. Len(Attempts) : Attempts[i].class # "success"

\* C31: a request that ends in 503 because no target succeeded has incremented
\* the counter of handled errors of type "failure" exactly once, whether the
\* traversal ended for want of a healthy candidate or of budget.
C31_FailureCountedOnce ==
    EndedIn503 => errorsHandled.failure = 1

\* C32: when the error handler reroutes a request away from a target whose
\* retries are used up, it leaves that target tainted, so that the selection
\* of later requests skips it until the taint is removed.
C32_ReroutedTargetIsTainted ==
    [][errorsHandled'.rerouted # errorsHandled.rerouted => isTainted'[peer]]_vars

\* ---- shutdown of the supervisor
\* A probe cycle is started in this step.
CycleStarted == \E t \in Targets : hc'[t].gasLeft > hc[t].gasLeft

\* C33: after the supervisor is shut down, by a call of Stop or by the
\* cancellation of its context, no further probe cycle is started for any
\* target.
C33_NoCycleAfterShutdown ==
    [][(hist.stopCalled \/ cancelled) => ~CycleStarted]_vars

\* ---- the weighted round robin
TimesReturned(i) == Cardinality({k \in 1 .. Len(hist.returned) : hist.returned[k] = i})

\* Every item was returned as often as its weight says, in the latest run of
\* as many calls as the weights sum up to.
InProportion ==
    Len(hist.returned) = SumOfWeights(wrr) =>
        \A i \in 1 .. Len(wrr) : TimesReturned(i) = wrr[i].Weight

\* An item of weight 0 was not returned.
ZeroWeightNotReturned ==
    \A k \in 1 .. Len(hist.returned) :
        hist.returned[k] # 0 => wrr[hist.returned[k]].Weight > 0

\* C34: Next distributes in proportion to weight: in every run of W
\* consecutive calls, W being the sum of the weights, every item is returned
\* as many times as its weight, and an item of weight 0 is never returned.
C34_NextInProportionToWeight ==
    InProportion /\ ZeroWeightNotReturned

\* ---- the status gauges
\* C35: the gas-limit gauge of a target shows a gas limit observed for that
\* target and the block-number gauge a block number observed for it, 0 before
\* any was observed; neither gauge is fed from the other's value.
C35_GaugesShowTheirOwnValue ==
    \A t \in Targets :
        /\ gauges[t].gasLimit \in {0} \cup hist.gasLimits[t]
        /\ gauges[t].blockNumber \in {0} \cup hist.blockNumbers[t]

\* ---- one response for one request
\* C36: a request that is not cancelled gets one response, an upstream's
\* answer passed through or a single error status: once the handler has
\* written to the client it contacts no upstream and writes nothing more.
C36_OneResponsePerRequest ==
    [][(response # NoResponse /\ ~cancelled /\ ~cancelled') =>
          (response' = response /\ Len(hist'.attempts) = Len(hist.attempts))]_vars

\* ---- observations made during a tick
\* C37: the taint check of the supervisor loses no observation: when a tick
\* resets a window, every observation the window had been given was there
\* when the tick read the average; one recorded later is still in the window.
C37_NoObservationLost ==
    [][\A t \in Targets :
          (window[t] # <<>> /\ window'[t] = <<>>) =>
              Len(hist.observed[t]) = hist.evaluated]_vars

\* ---- windows of every size
\* C38: for every configured window size, 0 included, and any interleaving of
\* Observe and Reset, Observe never indexes outside the window, and in every
\* state len <= size and 0 <= offset < max(size, 1).
C38_ObserveStaysInsideWindow ==
    /\ pc # "panic"
    /\ \A t \in Targets :
          /\ Len(window[t]) <= cfg.rollingWindowSize
          /\ 0 <= offset[t]
          /\ offset[t] < (IF cfg.rollingWindowSize > 1 THEN cfg.rollingWindowSize ELSE 1)

\* ---- overlapping probe cycles
\* C39: is_live reflects the most recently started probe cycle: when probe
\* cycles of one target overlap, the result of an older gas-left probe never
\* overwrites the result of a newer one.
C39_OlderProbeNeverOverwrites ==
    \A t \in Targets : ~hist.overwritten[t]

\* ---- the retrying transport
\* C40: RetryRoundTrip.RoundTrip issues at most Config.Retries round trips for
\* one request and then returns a response or an error, also when every
\* attempt is answered with a non-200 status or fails with a transport error.
C40_AtMostRetriesRoundTrips ==
    \A t \in Targets :
        /\ rt[t].trips <= cfg.retries
        /\ rt[t].pc # "panic"

====
